---- MODULE Spec2Model ----
(***************************************************************************)
(* Model of the cache layer of ignitero-launcher (src-tauri/src/cache.rs)  *)
(* and of the refresh orchestration around it (src-tauri/src/lib.rs).      *)
(*                                                                         *)
(* Strings that are compared or ordered are sequences of code points;      *)
(* Option<T> is a sequence of length 0 (None) or 1 (Some).                 *)
(***************************************************************************)
EXTENDS Integers, Sequences, FiniteSets, TLC

VARIABLES
    apps,         \* table apps: rows in rowid order
    directories,  \* table directories: rows in rowid order
    metadata,     \* table metadata: rows [key, value]
    now,          \* wall clock, seconds since the epoch
    ret,          \* the last CacheDB call: [op, arg, ok, value]
    saved,        \* history: the list last saved successfully, per table, whether
                  \* that save replaced other items, and the timestamp last set
    pc,           \* per thread: position inside perform_cache_refresh / prime_cache
    cache_db,     \* holder of the Mutex<CacheDB> of AppState, or NoThread
    local,        \* per thread: all_apps, all_directories, request number
    tx,           \* the open transaction of the connection
    state_apps,        \* AppState.apps (in-memory snapshot)
    state_directories, \* AppState.directories (in-memory snapshot)
    seen,         \* what the reading thread has read from the store
    requests,     \* history: number of refreshes requested so far
    schema,       \* the tables and indexes of the cache file: columns per table
    state_commands,    \* AppState.commands
    snapshot_lock,     \* holder of the Mutex of each snapshot of AppState, or NoThread
    search_engine,     \* AppState.search_engine: the matcher and the scores it gives
    settings           \* what SettingsManager holds

vars == <<apps, directories, metadata, now, ret, saved, pc, cache_db, local, tx,
          state_apps, state_directories, seen, requests, schema,
          state_commands, snapshot_lock, search_engine, settings>>

storeVars == <<apps, directories, metadata, now, ret, saved, schema>>
threadVars == <<pc, cache_db, local, tx, state_apps, state_directories, seen, requests>>
appVars == <<state_commands, snapshot_lock, search_engine, settings>>

-----------------------------------------------------------------------------
(* Bounds *)

\* longest list handed to save_apps / save_directories
MaxItems == 2
\* hours the clock may advance, and the largest interval_hours asked about
MaxHours == 3

-----------------------------------------------------------------------------
(* Values *)

None == <<>>
Some(x) == <<x>>

Range(s) == {s[i] : i \in 1..Len(s)}

Min(a, b) == IF a <= b THEN a ELSE b

\* SQLite's default BINARY collation on TEXT: byte-wise (code point) order,
\* a proper prefix sorting first.
StrLess(a, b) ==
    \E k \in 1..(Min(Len(a), Len(b)) + 1) :
        /\ \A i \in 1..(k - 1) : a[i] = b[i]
        /\ \/ k > Len(a) /\ k <= Len(b)
           \/ k <= Len(a) /\ k <= Len(b) /\ a[k] < b[k]

StrLeq(a, b) == a = b \/ StrLess(a, b)

AppItem(n, p, i, o) == [name |-> n, path |-> p, icon_path |-> i, original_name |-> o]
DirectoryItem(n, p, e) == [name |-> n, path |-> p, editor |-> e]

\* "Mail", "Safari", "Ma" and the original name "T" as code points
NameMail == <<77, 97, 105, 108>>
NameSafari == <<83, 97, 102, 97, 114, 105>>
NameMa == <<77, 97>>
NameT == <<84>>

\* The applications a caller can hand over: two bundles on one path, two
\* names that tie, every Option both ways.
App1 == AppItem(NameSafari, "/Applications/1.app", None, None)
App2 == AppItem(NameMail, "/Applications/2.app", Some("icon.png"), Some(NameT))
App3 == AppItem(NameMail, "/Applications/1.app", None, Some(NameT))
AppUniverse == {App1, App2, App3}

\* The directories: two on one path, two names that tie, a name that is a
\* prefix of another, editor both ways.
Dir1 == DirectoryItem(NameMa, "/d/1", Some("cursor"))
Dir2 == DirectoryItem(NameMail, "/d/2", None)
Dir3 == DirectoryItem(NameMail, "/d/1", None)
DirUniverse == {Dir1, Dir2, Dir3}

ListsOf(S, n) == UNION {[1..k -> S] : k \in 0..n}

AppLists == ListsOf(AppUniverse, MaxItems)
DirLists == ListsOf(DirUniverse, MaxItems)

UniquePaths(items) ==
    \A i, j \in 1..Len(items) : items[i].path = items[j].path => i = j

SecondsPerHour == 3600
StartTime == 4 * SecondsPerHour

-----------------------------------------------------------------------------
(* CacheDB: rows *)

AppRowWithoutOriginalName(app, ts) ==
    [name |-> app.name, path |-> app.path, icon_path |-> app.icon_path,
     original_name |-> None, last_updated |-> ts]

\* INSERT INTO apps (name, path, icon_path, original_name, last_updated);
\* the AUTOINCREMENT id is the position of the row in the table.
AppRow(app, ts) ==
    [name |-> app.name, path |-> app.path, icon_path |-> app.icon_path,
     original_name |-> app.original_name, last_updated |-> ts]

\* INSERT INTO directories (name, path, editor, last_updated)
DirRow(dir, ts) ==
    [name |-> dir.name, path |-> dir.path, editor |-> dir.editor, last_updated |-> ts]

\* SELECT name, path, icon_path, original_name FROM apps
AppOfRow(row) == AppItem(row.name, row.path, row.icon_path, row.original_name)

\* SELECT name, path, editor FROM directories
DirOfRow(row) == DirectoryItem(row.name, row.path, row.editor)

AppRows(items, ts) == [i \in 1..Len(items) |-> AppRow(items[i], ts)]
DirRows(items, ts) == [i \in 1..Len(items) |-> DirRow(items[i], ts)]

-----------------------------------------------------------------------------
(* CacheDB: one transaction of save_apps / save_directories *)

\* Where a storage error strikes a save: nowhere, at BEGIN, at the DELETE,
\* at the first INSERT, at COMMIT.
WriteFaults == {"ok", "begin", "delete", "insert", "commit"}
ReadFaults == {"ok", "error"}

DeleteNothing(table) == table

\* DELETE FROM <table>
DeleteAll(table) == <<>>

InsertRowAnyPath(table, row) == [ok |-> TRUE, table |-> Append(table, row)]

\* One INSERT: path is declared TEXT NOT NULL UNIQUE, so a row whose path is
\* already in the table is rejected with a constraint error.
InsertRow(table, row) ==
    IF \E i \in 1..Len(table) : table[i].path = row.path
    THEN [ok |-> FALSE, table |-> table]
    ELSE [ok |-> TRUE, table |-> Append(table, row)]

\* for x in items { tx.execute(INSERT ...)?; }: stops at the first error
RECURSIVE InsertAll(_, _, _)
InsertAll(table, rows, io) ==
    IF rows = <<>> THEN [ok |-> TRUE, table |-> table]
    ELSE IF io = "insert" THEN [ok |-> FALSE, table |-> table]
    ELSE LET r == InsertRow(table, Head(rows))
         IN IF r.ok THEN InsertAll(r.table, Tail(rows), io) ELSE r

\* tx.commit(): the table as the transaction left it
Commit(before, current) == current

RollbackKeepsChanges(before, current) == current

\* A Transaction dropped without commit (the early return of `?`, or a failed
\* COMMIT) rolls back: the table as it was at BEGIN.
Rollback(before, current) == before

SaveWithoutDelete(table, rows, io) ==
    IF io = "begin" THEN [ok |-> FALSE, table |-> table]
    ELSE IF io = "delete" THEN [ok |-> FALSE, table |-> Rollback(table, table)]
    ELSE LET ins == InsertAll(table, rows, io)
         IN IF ~ins.ok THEN [ok |-> FALSE, table |-> Rollback(table, ins.table)]
            ELSE IF io = "commit" THEN [ok |-> FALSE, table |-> Rollback(table, ins.table)]
            ELSE [ok |-> TRUE, table |-> Commit(table, ins.table)]

\* unchecked_transaction()?; DELETE?; INSERT? ...; commit()?
SaveTx(table, rows, io) ==
    IF io = "begin" THEN [ok |-> FALSE, table |-> table]
    ELSE IF io = "delete" THEN [ok |-> FALSE, table |-> Rollback(table, table)]
    ELSE LET ins == InsertAll(DeleteAll(table), rows, io)
         IN IF ~ins.ok THEN [ok |-> FALSE, table |-> Rollback(table, ins.table)]
            ELSE IF io = "commit" THEN [ok |-> FALSE, table |-> Rollback(table, ins.table)]
            ELSE [ok |-> TRUE, table |-> Commit(table, ins.table)]

-----------------------------------------------------------------------------
(* CacheDB: the schema and init_tables *)

NoTable == {}

\* the columns of apps before original_name was added, and now
AppColumnsV1 == {"id", "name", "path", "icon_path", "last_updated"}
AppColumns == AppColumnsV1 \cup {"original_name"}
DirColumns == {"id", "name", "path", "editor", "last_updated"}
MetadataColumns == {"key", "value"}

\* a file just created by Connection::open
NoSchema ==
    [apps |-> NoTable, directories |-> NoTable, metadata |-> NoTable, indexes |-> {}]

\* a file written by a version without original_name
SchemaV1 ==
    [apps |-> AppColumnsV1, directories |-> DirColumns, metadata |-> MetadataColumns,
     indexes |-> {"idx_apps_name", "idx_directories_name"}]

\* a file on which init_tables has run
CurrentSchema ==
    [apps |-> AppColumns, directories |-> DirColumns, metadata |-> MetadataColumns,
     indexes |-> {"idx_apps_name", "idx_apps_original_name", "idx_directories_name"}]

\* a row of apps in a file without the original_name column
AppRowV1(app, ts) ==
    [name |-> app.name, path |-> app.path, icon_path |-> app.icon_path,
     last_updated |-> ts]

\* CREATE TABLE IF NOT EXISTS <table> (<columns>)
CreateTableIfNotExists(db, table, columns) ==
    IF db.schema[table] # NoTable THEN [ok |-> TRUE, db |-> db]
    ELSE [ok |-> TRUE, db |-> [db EXCEPT !.schema[table] = columns]]

\* ALTER TABLE apps ADD COLUMN <column> TEXT: an error when the table has the
\* column already; the rows there get NULL in the new column
AlterTableAppsAddColumn(db, column) ==
    IF db.schema.apps = NoTable \/ column \in db.schema.apps
    THEN [ok |-> FALSE, db |-> db]
    ELSE [ok |-> TRUE,
          db |-> [db EXCEPT !.schema.apps = @ \cup {column},
                            !.apps = [i \in 1..Len(@) |->
                                        [c \in (DOMAIN @[i]) \cup {column} |->
                                            IF c = column THEN None ELSE @[i][c]]]]]

\* CREATE INDEX IF NOT EXISTS <index> ON <table>(<column>)
CreateIndexIfNotExists(db, index, table, column) ==
    IF index \in db.schema.indexes THEN [ok |-> TRUE, db |-> db]
    ELSE IF column \notin db.schema[table] THEN [ok |-> FALSE, db |-> db]
    ELSE [ok |-> TRUE, db |-> [db EXCEPT !.schema.indexes = @ \cup {index}]]

\* the statements of init_tables, in order
InitStatements ==
    <<"create_apps", "alter_apps", "index_apps_name", "index_apps_original_name",
      "create_directories", "index_directories_name", "create_metadata">>

Execute(db, statement) ==
    CASE statement = "create_apps" -> CreateTableIfNotExists(db, "apps", AppColumns)
      [] statement = "alter_apps" -> AlterTableAppsAddColumn(db, "original_name")
      [] statement = "index_apps_name" ->
            CreateIndexIfNotExists(db, "idx_apps_name", "apps", "name")
      [] statement = "index_apps_original_name" ->
            CreateIndexIfNotExists(db, "idx_apps_original_name", "apps", "original_name")
      [] statement = "create_directories" ->
            CreateTableIfNotExists(db, "directories", DirColumns)
      [] statement = "index_directories_name" ->
            CreateIndexIfNotExists(db, "idx_directories_name", "directories", "name")
      [] statement = "create_metadata" ->
            CreateTableIfNotExists(db, "metadata", MetadataColumns)

ErrorNeverIgnored(statement) == FALSE

\* let _ = self.conn.execute("ALTER TABLE ...") drops the Result; every other
\* statement ends in `?`
ErrorIgnored(statement) == statement = "alter_apps"

\* each statement commits on its own; io names the statement the storage fails
RECURSIVE RunStatements(_, _, _)
RunStatements(db, statements, io) ==
    IF statements = <<>> THEN [ok |-> TRUE, db |-> db]
    ELSE LET r == IF io = Head(statements) THEN [ok |-> FALSE, db |-> db]
                  ELSE Execute(db, Head(statements))
         IN IF r.ok \/ ErrorIgnored(Head(statements))
            THEN RunStatements(r.db, Tail(statements), io)
            ELSE [ok |-> FALSE, db |-> r.db]

InitFaults == {"ok", "open"} \cup Range(InitStatements)

\* Connection::open(db_path)? and init_tables()?
InitTables(db, io) ==
    IF io = "open" THEN [ok |-> FALSE, db |-> db]
    ELSE RunStatements(db, InitStatements, io)

-----------------------------------------------------------------------------
(* CacheDB: queries *)

Perms(n) == {f \in [1..n -> 1..n] : \A i, j \in 1..n : f[i] = f[j] => i = j}

RowidOrder(table) == {table}

\* ORDER BY name: every arrangement of the rows with names ascending; the
\* order of rows with equal names is not fixed by the query.
OrderByName(table) ==
    { [i \in 1..Len(table) |-> table[f[i]]] :
        f \in { g \in Perms(Len(table)) :
                  \A i \in 1..(Len(table) - 1) :
                      StrLeq(table[g[i]].name, table[g[i + 1]].name) } }

\* SELECT COUNT(*) FROM <table>
Count(table) == Len(table)

IsEmptyAppsOnly(a, d) == Count(a) = 0

\* app_count == 0 && dir_count == 0
IsEmptyOf(a, d) == Count(a) = 0 /\ Count(d) = 0

-----------------------------------------------------------------------------
(* CacheDB: the metadata table and the staleness check *)

KeyLastUpdateTime == "last_update_time"

\* i64::to_string: decimal digits as code points, '-' (45) in front of a
\* negative number
RECURSIVE DigitsOf(_)
DigitsOf(n) == IF n < 10 THEN <<48 + n>> ELSE Append(DigitsOf(n \div 10), 48 + (n % 10))

to_string(n) == IF n < 0 THEN <<45>> \o DigitsOf(0 - n) ELSE DigitsOf(n)

RECURSIVE ValueOfDigits(_)
ValueOfDigits(ds) ==
    IF ds = <<>> THEN 0
    ELSE 10 * ValueOfDigits(SubSeq(ds, 1, Len(ds) - 1)) + (ds[Len(ds)] - 48)

\* str::parse::<i64>: an optional sign, then one or more decimal digits
parse(s) ==
    LET signed == s # <<>> /\ s[1] \in {43, 45}
        digits == IF signed THEN Tail(s) ELSE s
    IN IF digits = <<>> \/ \E i \in 1..Len(digits) : digits[i] \notin 48..57
       THEN None
       ELSE Some(IF signed /\ s[1] = 45 THEN 0 - ValueOfDigits(digits)
                 ELSE ValueOfDigits(digits))

\* SELECT value FROM metadata WHERE key = 'last_update_time', as query_row:
\* Err when the query fails or returns no row
QueryLastUpdateTime(meta, io) ==
    IF io # "ok" \/ ~(\E r \in meta : r.key = KeyLastUpdateTime)
    THEN [ok |-> FALSE, value |-> None]
    ELSE [ok |-> TRUE, value |-> (CHOOSE r \in meta : r.key = KeyLastUpdateTime).value]

\* match result { Ok(value) => Ok(Some(value.parse().unwrap_or(0))), Err(_) => Ok(None) }
GetLastUpdateTime(meta, io) ==
    LET q == QueryLastUpdateTime(meta, io)
    IN IF q.ok
       THEN LET p == parse(q.value) IN Some(IF p = None THEN 0 ELSE p[1])
       ELSE None

\* INSERT OR REPLACE INTO metadata (key, value): key is the PRIMARY KEY
InsertOrReplace(meta, key, value) ==
    {r \in meta : r.key # key} \cup {[key |-> key, value |-> value]}

\* if let Some(last_update) = self.get_last_update_time()? { now - last_update >=
\* interval_seconds } else { true }
NeedsUpdateOf(meta, io, interval_hours, clock) ==
    LET last == GetLastUpdateTime(meta, io)
    IN IF last # None
       THEN clock - last[1] >= interval_hours * SecondsPerHour
       ELSE TRUE

-----------------------------------------------------------------------------
(* CacheDB: the operations, one action per call *)

NoSave == None

AppsOf(table) == [i \in 1..Len(table) |-> AppOfRow(table[i])]
DirsOf(table) == [i \in 1..Len(table) |-> DirOfRow(table[i])]

\* history: some item of the table before a call is not an item of the table after it
Dropped(before, after) == \E i \in 1..Len(before) : before[i] \notin Range(after)

Call(op, ok, io, dup, value) ==
    [op |-> op, ok |-> ok, io |-> io, dup |-> dup, value |-> value]

\* a save_apps that records the time of the save as last_update_time
save_apps_stamping(items, io) ==
    LET r == SaveTx(apps, AppRows(items, now), io)
    IN /\ apps' = r.table
       /\ metadata' = IF r.ok
                      THEN InsertOrReplace(metadata, KeyLastUpdateTime, to_string(now))
                      ELSE metadata
       /\ ret' = Call("save_apps", r.ok, io, ~UniquePaths(items), None)
       /\ saved' = IF r.ok
                   THEN [saved EXCEPT !.apps = Some(items),
                                      !.stale_apps = Dropped(AppsOf(apps), AppsOf(r.table))]
                   ELSE saved
       /\ UNCHANGED <<directories, now, schema, appVars>>
       /\ UNCHANGED threadVars

save_apps(items, io) ==
    LET r == SaveTx(apps, AppRows(items, now), io)
    IN /\ apps' = r.table
       /\ ret' = Call("save_apps", r.ok, io, ~UniquePaths(items), None)
       /\ saved' = IF r.ok
                   THEN [saved EXCEPT !.apps = Some(items),
                                      !.stale_apps = Dropped(AppsOf(apps), AppsOf(r.table))]
                   ELSE saved
       /\ UNCHANGED <<directories, metadata, now, schema, appVars>>
       /\ UNCHANGED threadVars

save_directories(items, io) ==
    LET r == SaveTx(directories, DirRows(items, now), io)
    IN /\ directories' = r.table
       /\ ret' = Call("save_directories", r.ok, io, ~UniquePaths(items), None)
       /\ saved' = IF r.ok
                   THEN [saved EXCEPT !.directories = Some(items),
                                      !.stale_directories =
                                          Dropped(DirsOf(directories), DirsOf(r.table))]
                   ELSE saved
       /\ UNCHANGED <<apps, metadata, now, schema, appVars>>
       /\ UNCHANGED threadVars

LoadApps(table, io) ==
    IF io # "ok" THEN {[ok |-> FALSE, value |-> <<>>]}
    ELSE { [ok |-> TRUE, value |-> [i \in 1..Len(rows) |-> AppOfRow(rows[i])]] :
             rows \in OrderByName(table) }

LoadDirectories(table, io) ==
    IF io # "ok" THEN {[ok |-> FALSE, value |-> <<>>]}
    ELSE { [ok |-> TRUE, value |-> [i \in 1..Len(rows) |-> DirOfRow(rows[i])]] :
             rows \in OrderByName(table) }

load_apps(io) ==
    /\ \E r \in LoadApps(apps, io) : ret' = Call("load_apps", r.ok, io, FALSE, r.value)
    /\ UNCHANGED <<apps, directories, metadata, now, saved, schema, appVars>>
    /\ UNCHANGED threadVars

load_directories(io) ==
    /\ \E r \in LoadDirectories(directories, io) :
           ret' = Call("load_directories", r.ok, io, FALSE, r.value)
    /\ UNCHANGED <<apps, directories, metadata, now, saved, schema, appVars>>
    /\ UNCHANGED threadVars

is_empty(io) ==
    /\ ret' = Call("is_empty", io = "ok", io, FALSE,
                   IF io = "ok" THEN IsEmptyOf(apps, directories) ELSE FALSE)
    /\ UNCHANGED <<apps, directories, metadata, now, saved, schema, appVars>>
    /\ UNCHANGED threadVars

get_last_update_time(io) ==
    /\ ret' = Call("get_last_update_time", TRUE, io, FALSE, GetLastUpdateTime(metadata, io))
    /\ UNCHANGED <<apps, directories, metadata, now, saved, schema, appVars>>
    /\ UNCHANGED threadVars

set_last_update_time(timestamp, io) ==
    /\ metadata' = IF io = "ok"
                   THEN InsertOrReplace(metadata, KeyLastUpdateTime, to_string(timestamp))
                   ELSE metadata
    /\ ret' = Call("set_last_update_time", io = "ok", io, FALSE, timestamp)
    /\ saved' = IF io = "ok" THEN [saved EXCEPT !.last_update_time = Some(timestamp)]
                 ELSE saved
    /\ UNCHANGED <<apps, directories, now, schema, appVars>>
    /\ UNCHANGED threadVars

needs_update(interval_hours, io) ==
    /\ ret' = Call("needs_update", TRUE, io, FALSE,
                   [interval_hours |-> interval_hours, now |-> now,
                    result |-> NeedsUpdateOf(metadata, io, interval_hours, now)])
    /\ UNCHANGED <<apps, directories, metadata, now, saved, schema, appVars>>
    /\ UNCHANGED threadVars

\* three DELETE statements, each committed on its own; `?` after each
clear_cache(io) ==
    /\ apps' = IF io \in {"ok", "directories", "metadata"} THEN DeleteAll(apps) ELSE apps
    /\ directories' = IF io \in {"ok", "metadata"} THEN DeleteAll(directories)
                      ELSE directories
    /\ metadata' = IF io = "ok" THEN {} ELSE metadata
    /\ ret' = Call("clear_cache", io = "ok", io, FALSE,
                   [apps |-> Len(apps), directories |-> Len(directories),
                    metadata |-> Cardinality(metadata)])
    /\ saved' = [apps |-> IF apps' = apps THEN saved.apps ELSE NoSave,
                 directories |-> IF directories' = directories THEN saved.directories
                                 ELSE NoSave,
                 stale_apps |-> FALSE,
                 stale_directories |-> FALSE,
                 last_update_time |-> IF io = "ok" THEN None ELSE saved.last_update_time]
    /\ UNCHANGED <<now, schema, appVars>>
    /\ UNCHANGED threadVars

\* the wall clock moves forward by d seconds, up to `limit`
Tick(d, limit) ==
    /\ now + d <= limit
    /\ now' = now + d
    /\ UNCHANGED <<apps, directories, metadata, ret, saved, schema, appVars>>
    /\ UNCHANGED threadVars

-----------------------------------------------------------------------------
(* Threads of the application *)

NoThread == "nobody"
\* the tray menu thread and the auto-update timer thread call
\* perform_cache_refresh; the startup thread calls prime_cache
Refreshers == {"tray", "timer"}
Reader == "startup"
\* the threads that run the commands of the front end: two search commands,
\* and add_command / remove_command
Searchers == {"ui1", "ui2"}
Editor == "ui3"
Threads == Refreshers \cup {Reader} \cup Searchers \cup {Editor}

NoLocals ==
    [all_apps |-> <<>>, all_directories |-> <<>>, request |-> 0, result |-> "none",
     is_empty |-> FALSE, update_on_startup |-> FALSE, apps |-> <<>>, directories |-> <<>>,
     before |-> None,
     kind |-> "none", query |-> <<>>, read |-> <<>>, at_lock |-> None, excluded_apps |-> {},
     results |-> None, command_items |-> <<>>, beside |-> {},
     auto_update_enabled |-> FALSE, interval_hours |-> 0, needs_update |-> FALSE,
     call |-> None, copy |-> None]

NoTx == [open |-> FALSE, kind |-> "none", before |-> <<>>, next |-> 0]

\* value holds the rows a load returned, answer what a yes-or-no query returned
NothingSeen == [op |-> "none", ok |-> TRUE, value |-> None, answer |-> FALSE]

\* the Mutexes around AppState.apps, .directories and .commands, all free
Snapshots == {"apps", "directories", "commands"}
\* with them the Mutex around the settings in SettingsManager
Mutexes == Snapshots \cup {"settings"}
NoLocks == [k \in Mutexes |-> NoThread]

\* a SearchEngine whose scores are not looked at
NoScores == <<>>

\* Settings::default(): no registered directory, no custom command
NoSettings ==
    [registered_directories |-> <<>>, custom_commands |-> <<>>, excluded_apps |-> {},
     cache_update |-> [update_on_startup |-> TRUE, auto_update_enabled |-> TRUE,
                       auto_update_interval_hours |-> 6],
     update_cache |-> [last_checked |-> None, latest_version |-> None,
                       html_url |-> None, dismissed_version |-> None],
     main_window_position |-> None]

\* the rest of AppState right after app.manage(AppState { .. })
AppStateIdle ==
    /\ snapshot_lock = NoLocks
    /\ search_engine = NoScores
    /\ settings = NoSettings

ThreadsIdle ==
    /\ pc = [t \in Threads |-> "idle"]
    /\ cache_db = NoThread
    /\ local = [t \in Threads |-> NoLocals]
    /\ tx = NoTx
    /\ state_apps = <<>>
    /\ state_directories = <<>>
    /\ seen = NothingSeen
    /\ requests = 0
    /\ state_commands = <<>>
    /\ AppStateIdle

-----------------------------------------------------------------------------
(* The store used by one caller: CacheDB::new_in_memory() and then any calls *)

\* new_in_memory() + init_tables(): three empty tables
Init ==
    /\ apps = <<>>
    /\ directories = <<>>
    /\ metadata = {}
    /\ now = StartTime
    /\ ret = Call("new_in_memory", TRUE, "ok", FALSE, None)
    /\ schema = CurrentSchema
    /\ saved = [apps |-> NoSave, directories |-> NoSave,
                stale_apps |-> FALSE, stale_directories |-> FALSE,
                last_update_time |-> None]
    /\ ThreadsIdle

ClearFaults == {"ok", "apps", "directories", "metadata"}

Next ==
    \/ \E items \in AppLists, io \in WriteFaults : save_apps(items, io)
    \/ \E items \in DirLists, io \in WriteFaults : save_directories(items, io)
    \/ \E io \in ReadFaults : load_apps(io)
    \/ \E io \in ReadFaults : load_directories(io)
    \/ \E io \in ReadFaults : is_empty(io)
    \/ \E io \in ReadFaults : set_last_update_time(now, io)
    \/ \E io \in ClearFaults : clear_cache(io)

Spec == Init /\ [][Next]_vars

-----------------------------------------------------------------------------
(* Properties of the store *)

Ascending(items) ==
    \A i \in 1..(Len(items) - 1) : StrLeq(items[i].name, items[i + 1].name)

SameItems(loaded, given) ==
    /\ Len(loaded) = Len(given)
    /\ Range(loaded) = Range(given)

\* C1: after save_apps(a) and then save_apps(b), load_apps() returns exactly
\* the items of b, and no item that was only in a is left in the table; the
\* same for save_directories / load_directories.
C1_AtomicReplace ==
    /\ [](ret.op = "load_apps" /\ ret.ok /\ saved.apps # NoSave
            => SameItems(ret.value, saved.apps[1]))
    /\ [](ret.op = "load_directories" /\ ret.ok /\ saved.directories # NoSave
            => SameItems(ret.value, saved.directories[1]))
    /\ [][ret'.op = "save_apps" /\ ret'.ok
            => \A i \in 1..Len(apps) :
                  AppOfRow(apps[i]) \notin Range(saved'.apps[1])
                      => AppOfRow(apps[i]) \notin Range(AppsOf(apps'))]_vars
    /\ [][ret'.op = "save_directories" /\ ret'.ok
            => \A i \in 1..Len(directories) :
                  DirOfRow(directories[i]) \notin Range(saved'.directories[1])
                      => DirOfRow(directories[i]) \notin Range(DirsOf(directories'))]_vars

\* a load that follows a save which replaced rows of another list
C1_Witness ==
    /\ ret.op = "load_apps" /\ ret.ok
    /\ saved.stale_apps
    /\ Len(ret.value) = 2

\* C2: a save that fails after its DELETE (an INSERT rejected for a duplicate
\* path, an INSERT or the COMMIT failing) returns an error and leaves the
\* table with exactly the rows it had before the call.
C2_FailedSaveKeepsRows ==
    /\ [](ret.op \in {"save_apps", "save_directories"} /\ (ret.dup \/ ret.io = "commit")
            => ~ret.ok)
    /\ [][ret'.op = "save_apps" /\ ~ret'.ok => apps' = apps]_vars
    /\ [][ret'.op = "save_directories" /\ ~ret'.ok => directories' = directories]_vars

\* save_apps was rejected for a duplicate path and the old rows are there
C2_Witness ==
    /\ ret.op = "save_apps" /\ ~ret.ok /\ ret.dup /\ ret.io = "ok"
    /\ Len(apps) = 2

\* C7: load after save returns the saved items, every field preserved
\* (icon_path, original_name and editor also when None).
C7_RoundTrip ==
    /\ ret.op = "load_apps" /\ ret.ok /\ saved.apps # NoSave
        => /\ Len(ret.value) = Len(saved.apps[1])
           /\ \A k \in 1..Len(saved.apps[1]) :
                 \E i \in 1..Len(ret.value) :
                    /\ ret.value[i].path = saved.apps[1][k].path
                    /\ ret.value[i].name = saved.apps[1][k].name
                    /\ ret.value[i].icon_path = saved.apps[1][k].icon_path
                    /\ ret.value[i].original_name = saved.apps[1][k].original_name
    /\ ret.op = "load_directories" /\ ret.ok /\ saved.directories # NoSave
        => /\ Len(ret.value) = Len(saved.directories[1])
           /\ \A k \in 1..Len(saved.directories[1]) :
                 \E i \in 1..Len(ret.value) :
                    /\ ret.value[i].path = saved.directories[1][k].path
                    /\ ret.value[i].name = saved.directories[1][k].name
                    /\ ret.value[i].editor = saved.directories[1][k].editor

\* two apps loaded back, one with icon_path None and one with original_name Some
C7_Witness ==
    /\ ret.op = "load_apps" /\ ret.ok /\ saved.apps # NoSave
    /\ Len(ret.value) = 2
    /\ \E i, j \in 1..2 : ret.value[i].icon_path = None /\ ret.value[j].original_name # None

\* C8: load_apps / load_directories return all rows of the table with names
\* ascending, whatever the order the items were saved in.
C8_LoadOrderedByName ==
    /\ ret.op = "load_apps" /\ ret.ok => Len(ret.value) = Len(apps) /\ Ascending(ret.value)
    /\ ret.op = "load_directories" /\ ret.ok
        => Len(ret.value) = Len(directories) /\ Ascending(ret.value)

\* the items were saved with names descending and are loaded ascending
C8_Witness ==
    /\ ret.op = "load_directories" /\ ret.ok /\ saved.directories # NoSave
    /\ Len(saved.directories[1]) = 2
    /\ StrLess(saved.directories[1][2].name, saved.directories[1][1].name)
    /\ Len(ret.value) = 2

NonEmptySaved(s) == s # NoSave /\ s[1] # <<>>

\* C9: is_empty() is true iff both tables have no rows: true on a fresh store
\* and after saving only empty lists or clearing, false after a non-empty save.
C9_IsEmptyIffNoRows ==
    ret.op = "is_empty" /\ ret.ok
        => /\ ret.value = (Len(apps) = 0 /\ Len(directories) = 0)
           /\ ret.value = (~NonEmptySaved(saved.apps) /\ ~NonEmptySaved(saved.directories))

\* is_empty() answers false with no apps and some directories
C9_Witness ==
    /\ ret.op = "is_empty" /\ ret.ok /\ ret.value = FALSE
    /\ Len(apps) = 0 /\ Len(directories) > 0

-----------------------------------------------------------------------------
(* The store and the clock: timestamps and the staleness check *)

IntervalHours == 0..MaxHours

NextTime ==
    \/ \E ts \in {now, now - 2 * SecondsPerHour}, io \in ReadFaults :
           set_last_update_time(ts, io)
    \/ \E io \in ReadFaults : get_last_update_time(io)
    \/ \E h \in IntervalHours, io \in ReadFaults : needs_update(h, io)
    \/ \E io \in ClearFaults : clear_cache(io)
    \/ \E d \in {SecondsPerHour - 1, SecondsPerHour} :
           Tick(d, StartTime + MaxHours * SecondsPerHour)

SpecTime == Init /\ [][NextTime]_vars

\* C10: needs_update(interval_hours) is true when no last_update_time was ever
\* recorded, and otherwise true exactly when
\* now - last_update_time >= interval_hours * 3600.
C10_NeedsUpdate ==
    ret.op = "needs_update"
        => ret.value.result =
             (\/ saved.last_update_time = None
              \/ ret.value.now - saved.last_update_time[1]
                    >= ret.value.interval_hours * SecondsPerHour)

\* the same with the metadata query succeeding
C10_NeedsUpdateQueryOk ==
    ret.op = "needs_update" /\ ret.io = "ok"
        => ret.value.result =
             (\/ saved.last_update_time = None
              \/ ret.value.now - saved.last_update_time[1]
                    >= ret.value.interval_hours * SecondsPerHour)

\* the cases of test_needs_update: fresh timestamp, two hours old with an
\* interval of one hour, two hours old with an interval of three hours
C10_Cases ==
    ret.op = "needs_update" /\ ret.io = "ok" /\ saved.last_update_time # None
        => /\ ret.value.now = saved.last_update_time[1] /\ ret.value.interval_hours >= 1
                => ret.value.result = FALSE
           /\ ret.value.now - saved.last_update_time[1] = 2 * SecondsPerHour
                => /\ ret.value.interval_hours = 1 => ret.value.result = TRUE
                   /\ ret.value.interval_hours = 3 => ret.value.result = FALSE

-----------------------------------------------------------------------------
(* perform_cache_refresh and prime_cache, statement by statement *)

\* What the scan of /Applications and of the registered directories reports:
\* one application, two applications, or one bundle twice (a registered
\* directory with scan_for_apps that lies inside /Applications)
AppScans == {<<App1>>, <<App2, App3>>, <<App1, App3>>}

\* One directory, two directories, or one path twice (a registered directory
\* that is also a subdirectory of another registered directory).
DirScans == {<<Dir2>>, <<Dir1, Dir2>>, <<Dir1, Dir3>>}

\* the Mutex around a snapshot handed to any caller, whoever holds it
CanLockSnapshotAlways(k) == TRUE

\* state.apps.lock(), state.directories.lock(), state.commands.lock():
\* granted when no thread holds that Mutex
CanLockSnapshot(k) == snapshot_lock[k] = NoThread

\* the Mutex around CacheDB handed to any caller, whoever holds it
CanLockAlways(t) == TRUE

\* state.cache_db.lock(): granted when no thread holds the Mutex
CanLock(t) == cache_db = NoThread

Table(kind) == IF kind = "apps" THEN apps ELSE directories

SetTable(kind, rows) ==
    IF kind = "apps" THEN apps' = rows /\ UNCHANGED directories
    ELSE directories' = rows /\ UNCHANGED apps

RowsToSave(t, kind) ==
    IF kind = "apps" THEN AppRows(local[t].all_apps, now)
    ELSE DirRows(local[t].all_directories, now)

SavePc(kind) == IF kind = "apps" THEN "save_apps" ELSE "save_directories"
InsertPc(kind) == IF kind = "apps" THEN "insert_apps" ELSE "insert_directories"
CommitPc(kind) == IF kind = "apps" THEN "commit_apps" ELSE "commit_directories"
\* the snapshots replaced as soon as the applications are saved
AfterSavePcPublishing(kind) == IF kind = "apps" THEN "publish_apps" ELSE "set_last_update_time"

AfterSavePc(kind) == IF kind = "apps" THEN "save_directories" ELSE "set_last_update_time"

Goto(t, label) == pc' = [pc EXCEPT ![t] = label]

\* perform_cache_refresh with the guard of cache_db taken on entry
RequestLockFirst(t) ==
    /\ pc[t] = "idle"
    /\ CanLock(t)
    /\ cache_db' = t
    /\ requests' = requests + 1
    /\ local' = [local EXCEPT ![t].request = requests + 1]
    /\ Goto(t, "scan")
    /\ UNCHANGED <<tx, state_apps, state_directories, seen>>
    /\ UNCHANGED storeVars
    /\ UNCHANGED appVars

\* a caller enters perform_cache_refresh
Request(t) ==
    /\ pc[t] = "idle"
    /\ requests' = requests + 1
    /\ local' = [local EXCEPT ![t].request = requests + 1]
    /\ Goto(t, "scan")
    /\ UNCHANGED <<cache_db, tx, state_apps, state_directories, seen>>
    /\ UNCHANGED storeVars
    /\ UNCHANGED appVars

\* all_apps and all_directories: the scans and the icon conversion, on the
\* caller's own vectors; IconConverter::new()? may fail before the directories
Scan(t, found_apps, found_directories, converter) ==
    /\ pc[t] = "scan"
    /\ IF converter = "ok"
       THEN /\ local' = [local EXCEPT ![t].all_apps = found_apps,
                                      ![t].all_directories = found_directories]
            /\ Goto(t, "lock")
       ELSE /\ local' = [local EXCEPT ![t].result = "err"]
            /\ Goto(t, "done")
    /\ UNCHANGED <<cache_db, tx, state_apps, state_directories, seen, requests>>
    /\ UNCHANGED storeVars
    /\ UNCHANGED appVars

\* let cache_db = state.cache_db.lock().unwrap();
Lock(t) ==
    /\ pc[t] = "lock"
    /\ CanLock(t)
    /\ cache_db' = t
    /\ local' = [local EXCEPT ![t].before =
                    Some([apps |-> apps, directories |-> directories, metadata |-> metadata])]
    /\ Goto(t, "save_apps")
    /\ UNCHANGED <<tx, state_apps, state_directories, seen, requests>>
    /\ UNCHANGED storeVars
    /\ UNCHANGED appVars

\* unchecked_transaction()? and DELETE FROM <table>
TxBegin(t, kind, io) ==
    /\ pc[t] = SavePc(kind)
    /\ IF io = "ok"
       THEN /\ tx' = [open |-> TRUE, kind |-> kind, before |-> Table(kind), next |-> 1]
            /\ SetTable(kind, DeleteAll(Table(kind)))
            /\ Goto(t, IF RowsToSave(t, kind) = <<>> THEN CommitPc(kind) ELSE InsertPc(kind))
       ELSE /\ Goto(t, "return_err")
            /\ UNCHANGED <<tx, apps, directories>>
    /\ UNCHANGED <<cache_db, local, state_apps, state_directories, seen, requests>>
    /\ UNCHANGED <<metadata, now, ret, saved, schema, appVars>>

\* one INSERT of the loop; an error drops the transaction
TxInsert(t, kind, io) ==
    /\ pc[t] = InsertPc(kind)
    /\ tx.open /\ tx.kind = kind
    /\ LET rows == RowsToSave(t, kind)
           r == IF io = "insert" THEN [ok |-> FALSE, table |-> Table(kind)]
                ELSE InsertRow(Table(kind), rows[tx.next])
       IN IF r.ok
          THEN /\ SetTable(kind, r.table)
               /\ tx' = [tx EXCEPT !.next = tx.next + 1]
               /\ Goto(t, IF tx.next = Len(rows) THEN CommitPc(kind) ELSE InsertPc(kind))
          ELSE /\ SetTable(kind, Rollback(tx.before, r.table))
               /\ tx' = NoTx
               /\ Goto(t, "return_err")
    /\ UNCHANGED <<cache_db, local, state_apps, state_directories, seen, requests>>
    /\ UNCHANGED <<metadata, now, ret, saved, schema, appVars>>

\* tx.commit()?
TxCommit(t, kind, io) ==
    /\ pc[t] = CommitPc(kind)
    /\ tx.open /\ tx.kind = kind
    /\ IF io = "ok"
       THEN /\ SetTable(kind, Commit(tx.before, Table(kind)))
            /\ Goto(t, AfterSavePc(kind))
       ELSE /\ SetTable(kind, Rollback(tx.before, Table(kind)))
            /\ Goto(t, "return_err")
    /\ tx' = NoTx
    /\ UNCHANGED <<cache_db, local, state_apps, state_directories, seen, requests>>
    /\ UNCHANGED <<metadata, now, ret, saved, schema, appVars>>

\* cache_db.set_last_update_time(now)?
RecordUpdateTime(t, io) ==
    /\ pc[t] = "set_last_update_time"
    /\ IF io = "ok"
       THEN /\ metadata' = InsertOrReplace(metadata, KeyLastUpdateTime, to_string(now))
            /\ Goto(t, "publish_apps")
       ELSE /\ Goto(t, "return_err")
            /\ UNCHANGED metadata
    /\ UNCHANGED <<cache_db, local, tx, state_apps, state_directories, seen, requests>>
    /\ UNCHANGED <<apps, directories, now, ret, saved, schema, appVars>>

\* *state.apps.lock().unwrap() = all_apps;
PublishApps(t) ==
    /\ pc[t] = "publish_apps"
    /\ CanLockSnapshot("apps")
    /\ state_apps' = local[t].all_apps
    /\ Goto(t, "publish_directories")
    /\ UNCHANGED <<cache_db, local, tx, state_directories, seen, requests>>
    /\ UNCHANGED storeVars
    /\ UNCHANGED appVars

\* perform_cache_refresh returning without the second assignment
PublishNoDirectories(t) ==
    /\ pc[t] = "publish_directories"
    /\ Goto(t, "return_ok")
    /\ UNCHANGED <<cache_db, local, tx, state_apps, state_directories, seen, requests>>
    /\ UNCHANGED storeVars
    /\ UNCHANGED appVars

\* *state.directories.lock().unwrap() = all_directories;
PublishDirectories(t) ==
    /\ pc[t] = "publish_directories"
    /\ CanLockSnapshot("directories")
    /\ state_directories' = local[t].all_directories
    /\ Goto(t, "return_ok")
    /\ UNCHANGED <<cache_db, local, tx, state_apps, seen, requests>>
    /\ UNCHANGED storeVars
    /\ UNCHANGED appVars

\* Ok(()) or the `?` of a failed step: the guard cache_db is dropped
Return(t) ==
    /\ pc[t] \in {"return_ok", "return_err"}
    /\ cache_db' = IF cache_db = t THEN NoThread ELSE cache_db
    /\ local' = [local EXCEPT ![t].result = IF pc[t] = "return_ok" THEN "ok" ELSE "err",
                              ![t].before = None]
    /\ Goto(t, "done")
    /\ UNCHANGED <<tx, state_apps, state_directories, seen, requests>>
    /\ UNCHANGED storeVars
    /\ UNCHANGED appVars

\* prime_cache is entered with the settings read at startup
PrimeStart(t, update_on_startup) ==
    /\ pc[t] = "idle"
    /\ local' = [local EXCEPT ![t].update_on_startup = update_on_startup]
    /\ Goto(t, "prime_lock")
    /\ UNCHANGED <<cache_db, tx, state_apps, state_directories, seen, requests>>
    /\ UNCHANGED storeVars
    /\ UNCHANGED appVars

\* state.cache_db.lock() in prime_cache, before is_empty and before the loads
PrimeLock(t) ==
    /\ pc[t] \in {"prime_lock", "prime_lock_again"}
    /\ CanLock(t)
    /\ cache_db' = t
    /\ Goto(t, IF pc[t] = "prime_lock" THEN "prime_is_empty" ELSE "prime_load_apps")
    /\ UNCHANGED <<local, tx, state_apps, state_directories, seen, requests>>
    /\ UNCHANGED storeVars
    /\ UNCHANGED appVars

\* prime_cache with an error of is_empty taken as a filled cache
PrimeIsEmptyOrFalse(t, io) ==
    /\ pc[t] = "prime_is_empty"
    /\ LET empty == IF io = "ok" THEN IsEmptyOf(apps, directories) ELSE FALSE
           refresh == empty \/ local[t].update_on_startup
       IN /\ local' = [local EXCEPT ![t].is_empty = empty,
                                    ![t].request = IF refresh THEN requests + 1 ELSE 0]
          /\ requests' = IF refresh THEN requests + 1 ELSE requests
          /\ Goto(t, IF refresh THEN "scan" ELSE "prime_lock_again")
          /\ seen' = [op |-> "is_empty", ok |-> io = "ok", value |-> None, answer |-> empty]
    /\ cache_db' = IF cache_db = t THEN NoThread ELSE cache_db
    /\ UNCHANGED <<tx, state_apps, state_directories>>
    /\ UNCHANGED storeVars
    /\ UNCHANGED appVars

\* cache_db.is_empty().unwrap_or(true); drop(cache_db); then the branch:
\* perform_cache_refresh(state) or the loads
PrimeIsEmpty(t, io) ==
    /\ pc[t] = "prime_is_empty"
    /\ LET empty == IF io = "ok" THEN IsEmptyOf(apps, directories) ELSE TRUE
           refresh == empty \/ local[t].update_on_startup
       IN /\ local' = [local EXCEPT ![t].is_empty = empty,
                                    ![t].request = IF refresh THEN requests + 1 ELSE 0]
          /\ requests' = IF refresh THEN requests + 1 ELSE requests
          /\ Goto(t, IF refresh THEN "scan" ELSE "prime_lock_again")
          /\ seen' = [op |-> "is_empty", ok |-> io = "ok", value |-> None, answer |-> empty]
    /\ cache_db' = IF cache_db = t THEN NoThread ELSE cache_db
    /\ UNCHANGED <<tx, state_apps, state_directories>>
    /\ UNCHANGED storeVars
    /\ UNCHANGED appVars

\* let apps = cache_db.load_apps().map_err(..)?;
PrimeLoadApps(t, io) ==
    /\ pc[t] = "prime_load_apps"
    /\ \E r \in LoadApps(apps, io) :
          /\ IF r.ok
             THEN /\ local' = [local EXCEPT ![t].apps = r.value]
                  /\ Goto(t, "prime_load_directories")
                  /\ UNCHANGED cache_db
             ELSE /\ local' = [local EXCEPT ![t].result = "err"]
                  /\ Goto(t, "done")
                  /\ cache_db' = IF cache_db = t THEN NoThread ELSE cache_db
          /\ seen' = [op |-> "load_apps", ok |-> r.ok, value |-> r.value, answer |-> FALSE]
    /\ UNCHANGED <<tx, state_apps, state_directories, requests>>
    /\ UNCHANGED storeVars
    /\ UNCHANGED appVars

\* let directories = cache_db.load_directories().map_err(..)?; drop(cache_db);
PrimeLoadDirectories(t, io) ==
    /\ pc[t] = "prime_load_directories"
    /\ \E r \in LoadDirectories(directories, io) :
          /\ IF r.ok
             THEN /\ local' = [local EXCEPT ![t].directories = r.value]
                  /\ Goto(t, "prime_publish_apps")
             ELSE /\ local' = [local EXCEPT ![t].result = "err"]
                  /\ Goto(t, "done")
          /\ seen' = [op |-> "load_directories", ok |-> r.ok, value |-> r.value,
                      answer |-> FALSE]
    /\ cache_db' = IF cache_db = t THEN NoThread ELSE cache_db
    /\ UNCHANGED <<tx, state_apps, state_directories, requests>>
    /\ UNCHANGED storeVars
    /\ UNCHANGED appVars

\* *state.apps.lock().unwrap() = apps;
PrimePublishApps(t) ==
    /\ pc[t] = "prime_publish_apps"
    /\ CanLockSnapshot("apps")
    /\ state_apps' = local[t].apps
    /\ Goto(t, "prime_publish_directories")
    /\ UNCHANGED <<cache_db, local, tx, state_directories, seen, requests>>
    /\ UNCHANGED storeVars
    /\ UNCHANGED appVars

\* *state.directories.lock().unwrap() = directories; Ok(())
PrimePublishDirectories(t) ==
    /\ pc[t] = "prime_publish_directories"
    /\ CanLockSnapshot("directories")
    /\ state_directories' = local[t].directories
    /\ local' = [local EXCEPT ![t].result = "ok"]
    /\ Goto(t, "done")
    /\ UNCHANGED <<cache_db, tx, state_apps, seen, requests>>
    /\ UNCHANGED storeVars
    /\ UNCHANGED appVars

Kinds == {"apps", "directories"}

\* the statements of perform_cache_refresh, for the thread t
\* perform_cache_refresh from the lock of cache_db to its return
Persist(t) ==
    \/ Lock(t)
    \/ \E kind \in Kinds, io \in {"ok", "begin", "delete"} : TxBegin(t, kind, io)
    \/ \E kind \in Kinds, io \in {"ok", "insert"} : TxInsert(t, kind, io)
    \/ \E kind \in Kinds, io \in {"ok", "commit"} : TxCommit(t, kind, io)
    \/ \E io \in ReadFaults : RecordUpdateTime(t, io)
    \/ PublishApps(t)
    \/ PublishDirectories(t)
    \/ Return(t)

Refresh(t) ==
    \/ \E a \in AppScans, d \in DirScans, converter \in {"ok", "error"} : Scan(t, a, d, converter)
    \/ Persist(t)

\* the cache file: new, or as a refresh of an hour ago left it
CacheFile(filled) ==
    /\ apps = IF filled THEN AppRows(<<App1>>, StartTime - SecondsPerHour) ELSE <<>>
    /\ directories = IF filled THEN DirRows(<<Dir2>>, StartTime - SecondsPerHour) ELSE <<>>
    /\ metadata = IF filled
                  THEN {[key |-> KeyLastUpdateTime,
                         value |-> to_string(StartTime - SecondsPerHour)]}
                  ELSE {}
    /\ saved = [apps |-> IF filled THEN Some(<<App1>>) ELSE NoSave,
                directories |-> IF filled THEN Some(<<Dir2>>) ELSE NoSave,
                stale_apps |-> FALSE, stale_directories |-> FALSE,
                last_update_time |-> IF filled THEN Some(StartTime - SecondsPerHour)
                                     ELSE None]
    /\ now = StartTime
    /\ ret = Call("new", TRUE, "ok", FALSE, None)
    /\ schema = CurrentSchema

-----------------------------------------------------------------------------
(* Two refreshes at once: the tray menu thread and the auto-update timer
   thread, both spawned after prime_cache has returned. *)

\* after setup: prime_cache has loaded the cache file into the snapshots, or
\* (new file, failed first refresh) left everything empty
InitRefresh ==
    /\ \E filled \in BOOLEAN :
          /\ CacheFile(filled)
          /\ state_apps = IF filled THEN <<App1>> ELSE <<>>
          /\ state_directories = IF filled THEN <<Dir2>> ELSE <<>>
          /\ local = [t \in Threads |->
                        IF t = Reader
                        THEN [NoLocals EXCEPT !.result = IF filled THEN "ok" ELSE "err"]
                        ELSE NoLocals]
    /\ pc = [t \in Threads |-> IF t = Reader THEN "done" ELSE "idle"]
    /\ cache_db = NoThread
    /\ tx = NoTx
    /\ seen = NothingSeen
    /\ requests = 0
    /\ state_commands = <<>>
    /\ AppStateIdle

NextRefresh ==
    \/ \E t \in Refreshers : Request(t)
    \/ \E t \in Refreshers : Refresh(t)

SpecRefresh == InitRefresh /\ [][NextRefresh]_vars

-----------------------------------------------------------------------------
(* A refresh interleaved with the reads of prime_cache. *)

Writer == "timer"

InitPrime ==
    /\ \E filled \in BOOLEAN : CacheFile(filled)
    /\ ThreadsIdle

NextPrime ==
    \/ Request(Writer)
    \/ \E t \in {Writer, Reader} : Refresh(t)
    \/ \E u \in BOOLEAN : PrimeStart(Reader, u)
    \/ PrimeLock(Reader)
    \/ \E io \in ReadFaults : PrimeIsEmpty(Reader, io)
    \/ \E io \in ReadFaults : PrimeLoadApps(Reader, io)
    \/ \E io \in ReadFaults : PrimeLoadDirectories(Reader, io)
    \/ PrimePublishApps(Reader)
    \/ PrimePublishDirectories(Reader)

SpecPrime == InitPrime /\ [][NextPrime]_vars

-----------------------------------------------------------------------------
(* Properties of the refresh *)

\* the rows of a table as the last commit left them
CommittedTable(kind) == IF tx.open /\ tx.kind = kind THEN tx.before ELSE Table(kind)

\* C3: every read of prime_cache (is_empty, load_apps, load_directories),
\* however it interleaves with a refresh saving the tables, returns what a
\* committed table holds: the rows before the save or the rows after it, never
\* the rows of a save that has deleted and not yet inserted everything.
C3_ReadsSeeWholeTable ==
    [][/\ pc[Reader] = "prime_is_empty" /\ pc'[Reader] # "prime_is_empty" /\ seen'.ok
            => seen'.answer =
                 IsEmptyOf(CommittedTable("apps"), CommittedTable("directories"))
       /\ pc[Reader] = "prime_load_apps" /\ pc'[Reader] # "prime_load_apps" /\ seen'.ok
            => \E r \in LoadApps(CommittedTable("apps"), "ok") : seen'.value = r.value
       /\ pc[Reader] = "prime_load_directories" /\ pc'[Reader] # "prime_load_directories"
            /\ seen'.ok
            => \E r \in LoadDirectories(CommittedTable("directories"), "ok") :
                  seen'.value = r.value]_vars

\* prime_cache found the file filled, the refresh then replaced the one
\* application by two, and load_apps returned the two
C3_Witness ==
    /\ pc[Reader] = "prime_load_directories"
    /\ seen.op = "load_apps" /\ seen.ok /\ Len(seen.value) = 2
    /\ local[Reader].is_empty = FALSE
    /\ saved.apps # NoSave
    /\ local[Writer].result = "ok"

\* the thread whose refresh was requested last
LastRequested == CHOOSE t \in Refreshers : local[t].request = requests

\* C4: when a refresh is requested while another is running, the second one
\* scans and saves only after the first has finished, so that after both have
\* completed the tables and the snapshots hold the second one's result.
C4_LastRequestedRefreshWins ==
    (\A t \in Refreshers : pc[t] = "done" /\ local[t].result = "ok")
        => /\ AppsOf(apps) = local[LastRequested].all_apps
           /\ DirsOf(directories) = local[LastRequested].all_directories
           /\ state_apps = local[LastRequested].all_apps
           /\ state_directories = local[LastRequested].all_directories

SaveStep ==
    {"save_apps", "insert_apps", "commit_apps", "save_directories", "insert_directories",
     "commit_directories", "set_last_update_time"}

\* the rows the cache file had when the threads started
AppRowsAtStart ==
    IF saved.apps = NoSave THEN <<>> ELSE AppRows(saved.apps[1], saved.last_update_time[1])

DirRowsAtStart ==
    IF saved.directories = NoSave THEN <<>>
    ELSE DirRows(saved.directories[1], saved.last_update_time[1])

\* C5: at most one thread is in the save step of perform_cache_refresh, and
\* once all refreshes have finished each table holds the rows of one single
\* refresh (or, when no refresh saved it, the rows it had at the start): never
\* a union or a mixture of two scans.
C5_OneWriterAtATime ==
    /\ Cardinality({t \in Threads : pc[t] \in SaveStep}) <= 1
    /\ (\A t \in Refreshers : pc[t] = "done")
        => /\ \/ apps = AppRowsAtStart
              \/ \E t \in Refreshers : apps = AppRows(local[t].all_apps, now)
           /\ \/ directories = DirRowsAtStart
              \/ \E t \in Refreshers : directories = DirRows(local[t].all_directories, now)

\* two refreshes with different scans of applications and of directories have
\* both saved and returned Ok
C5_Witness ==
    /\ \A t \in Refreshers : pc[t] = "done" /\ local[t].result = "ok"
    /\ local["tray"].all_apps # local["timer"].all_apps
    /\ local["tray"].all_directories # local["timer"].all_directories

\* C6: when perform_cache_refresh returns, with Ok or with an error, the apps
\* table, the directories table and last_update_time are all three as they
\* were when the refresh took the store, or all three those of this refresh.
C6_RefreshAllOrNothing ==
    \A t \in Refreshers :
        pc[t] \in {"return_ok", "return_err"} /\ local[t].before # None
            => LET before == local[t].before[1]
               IN \/ /\ apps = before.apps
                     /\ directories = before.directories
                     /\ metadata = before.metadata
                  \/ /\ apps = AppRows(local[t].all_apps, now)
                     /\ directories = DirRows(local[t].all_directories, now)
                     /\ metadata = InsertOrReplace(before.metadata, KeyLastUpdateTime,
                                                   to_string(now))

-----------------------------------------------------------------------------
(* Properties of the timestamp *)

\* C11: get_last_update_time() returns None when set_last_update_time was
\* never called, and otherwise Some(ts) of the most recent call that stored a
\* timestamp; the metadata table never holds two last_update_time entries.
C11_GetReturnsLastSet ==
    /\ ret.op = "get_last_update_time" => ret.ok /\ ret.value = saved.last_update_time
    /\ Cardinality({r \in metadata : r.key = KeyLastUpdateTime}) <= 1

\* the same with the metadata query succeeding
C11_GetReturnsLastSetQueryOk ==
    /\ ret.op = "get_last_update_time" /\ ret.io = "ok"
        => ret.ok /\ ret.value = saved.last_update_time
    /\ Cardinality({r \in metadata : r.key = KeyLastUpdateTime}) <= 1

\* C13: every operation of the store returns an error when the storage under
\* it fails; get_last_update_time and needs_update return an error, not None
\* or true, when the metadata query fails.
C13_StorageErrorsSurface ==
    ret.io # "ok" => ~ret.ok

\* the same for the operations other than get_last_update_time and needs_update
C13_OtherOperationsSurface ==
    ret.io # "ok" /\ ret.op \notin {"get_last_update_time", "needs_update"} => ~ret.ok

-----------------------------------------------------------------------------
(* The store with all of its operations on a few lists *)

NextStore ==
    \/ \E items \in AppScans, io \in {"ok", "insert"} : save_apps(items, io)
    \/ \E items \in DirScans, io \in {"ok", "commit"} : save_directories(items, io)
    \/ \E io \in ReadFaults : set_last_update_time(now, io)
    \/ \E io \in ClearFaults : clear_cache(io)
    \/ \E io \in ReadFaults : load_apps(io)
    \/ \E io \in ReadFaults : load_directories(io)
    \/ \E io \in ReadFaults : is_empty(io)
    \/ \E io \in ReadFaults : get_last_update_time(io)
    \/ \E h \in IntervalHours, io \in ReadFaults : needs_update(h, io)

SpecStore == Init /\ [][NextStore]_vars

Cleared == apps = <<>> /\ directories = <<>> /\ metadata = {}

\* C12: a clear_cache() that returns Ok leaves all three tables empty, whatever
\* they held; on the cleared store load_apps() and load_directories() return
\* empty lists, get_last_update_time() returns None and needs_update(h)
\* returns true for every h.
C12_ClearEmptiesAll ==
    /\ [][ret'.op = "clear_cache" /\ ret'.ok => Cleared']_vars
    /\ [][Cleared
            => /\ ret'.op = "load_apps" /\ ret'.ok => ret'.value = <<>>
               /\ ret'.op = "load_directories" /\ ret'.ok => ret'.value = <<>>
               /\ ret'.op = "get_last_update_time" => ret'.ok /\ ret'.value = None
               /\ ret'.op = "needs_update" => ret'.ok /\ ret'.value.result = TRUE]_vars

\* clear_cache() returned Ok on a store with two applications, two directories
\* and a timestamp
C12_Witness ==
    /\ ret.op = "clear_cache" /\ ret.ok
    /\ ret.value.apps = 2 /\ ret.value.directories = 2 /\ ret.value.metadata = 1
    /\ Cleared

-----------------------------------------------------------------------------
(* Properties of the collections *)

\* C14: in every state no two rows of the apps table share a path and no two
\* rows of the directories table share a path, also inside a save, and the
\* snapshots state.apps and state.directories written by perform_cache_refresh
\* and by prime_cache never hold two items with the same path.
C14_PathsUnique ==
    /\ UniquePaths(apps)
    /\ UniquePaths(directories)
    /\ UniquePaths(state_apps)
    /\ UniquePaths(state_directories)

\* a refresh whose scans held a path twice has returned an error, and the
\* snapshots hold what prime_cache loaded
C14_Witness ==
    /\ pc[Writer] = "done" /\ local[Writer].result = "err"
    /\ ~UniquePaths(local[Writer].all_apps)
    /\ ~UniquePaths(local[Writer].all_directories)
    /\ pc[Reader] = "done" /\ local[Reader].result = "ok"
    /\ state_apps # <<>> /\ state_directories # <<>>

-----------------------------------------------------------------------------
(* Opening the cache file: CacheDB::new on a file of any version *)

StoredAppLists == {items \in AppScans \cup {<<>>} : UniquePaths(items)}
StoredDirLists == {items \in DirScans \cup {<<>>} : UniquePaths(items)}

\* CacheDB::new(): the file keeps what the statements that ran did to it, also
\* when a later statement fails; ret.value is the set of columns apps had
new(io) ==
    LET r == InitTables([schema |-> schema, apps |-> apps, directories |-> directories,
                         metadata |-> metadata], io)
    IN /\ schema' = r.db.schema
       /\ apps' = r.db.apps
       /\ directories' = r.db.directories
       /\ metadata' = r.db.metadata
       /\ ret' = Call("new", r.ok, io, FALSE, schema.apps)
       /\ UNCHANGED <<now, saved, appVars>>
       /\ UNCHANGED threadVars

\* no file yet, a file of the version without original_name, or a file of
\* this version, with the rows an earlier run saved an hour ago
InitSchema ==
    /\ \E version \in {"none", "v1", "current"}, a \in StoredAppLists, d \in StoredDirLists,
          stamped \in BOOLEAN :
          /\ version = "none" => a = <<>> /\ d = <<>> /\ ~stamped
          /\ schema = CASE version = "none" -> NoSchema
                        [] version = "v1" -> SchemaV1
                        [] version = "current" -> CurrentSchema
          /\ apps = IF version = "v1"
                    THEN [i \in 1..Len(a) |-> AppRowV1(a[i], StartTime - SecondsPerHour)]
                    ELSE AppRows(a, StartTime - SecondsPerHour)
          /\ directories = DirRows(d, StartTime - SecondsPerHour)
          /\ metadata = IF stamped
                        THEN {[key |-> KeyLastUpdateTime,
                               value |-> to_string(StartTime - SecondsPerHour)]}
                        ELSE {}
          /\ saved = [apps |-> IF version = "none" THEN NoSave ELSE Some(a),
                      directories |-> IF version = "none" THEN NoSave ELSE Some(d),
                      stale_apps |-> FALSE, stale_directories |-> FALSE,
                      last_update_time |-> IF stamped THEN Some(StartTime - SecondsPerHour)
                                           ELSE None]
    /\ now = StartTime
    /\ ret = Call("none", TRUE, "ok", FALSE, None)
    /\ ThreadsIdle

NextSchema == \E io \in InitFaults : new(io)

SpecSchema == InitSchema /\ [][NextSchema]_vars

\* the file as the connection sees it
Database(s, a, d, m) == [schema |-> s, apps |-> a, directories |-> d, metadata |-> m]

\* C15: opening a store whose tables exist, with or without the original_name
\* column, succeeds; every row that was there is still there with every
\* column it had unchanged; and running the initialization again on the
\* result changes nothing.
C15_InitTablesIdempotent ==
    [][ret'.op = "new"
        => /\ ret'.io = "ok" => ret'.ok
           /\ Len(apps') = Len(apps)
           /\ \A i \in 1..Len(apps) : \A c \in DOMAIN apps[i] : apps'[i][c] = apps[i][c]
           /\ directories' = directories
           /\ metadata' = metadata
           /\ ret'.ok
                => InitTables(Database(schema', apps', directories', metadata'), "ok")
                     = [ok |-> TRUE,
                        db |-> Database(schema', apps', directories', metadata')]]_vars

\* a file without the original_name column and with two applications was
\* opened: the column is there and the two rows have NULL in it
C15_Witness ==
    /\ ret.op = "new" /\ ret.ok
    /\ ret.value = AppColumnsV1
    /\ schema = CurrentSchema
    /\ Len(apps) = 2
    /\ \A i \in 1..2 : apps[i].original_name = None /\ apps[i].name = NameMail

-----------------------------------------------------------------------------
(* SearchEngine (src-tauri/src/search.rs) *)

\* the whole full-width block '！'..='～'
IsFullWidthBlock(c) == c \in 65281..65374

\* 'Ａ'..='Ｚ', 'ａ'..='ｚ', '０'..='９'
IsFullWidthAlphanumeric(c) ==
    \/ c \in 65313..65338
    \/ c \in 65345..65370
    \/ c \in 65296..65305

\* 0xFEE0
FullWidthOffset == 65248

\* char::to_lowercase on the code points used here: 'A'..'Z' and the
\* full-width 'Ａ'..'Ｚ' have a lower case 32 further on, U+0130 (capital I
\* with dot above) becomes the two characters U+0069 U+0307, and digits,
\* lower-case letters, punctuation, kana and kanji are left as they are
LowerChar(c) ==
    CASE c \in 65..90 -> <<c + 32>>
      [] c \in 65313..65338 -> <<c + 32>>
      [] c = 304 -> <<105, 775>>
      [] OTHER -> <<c>>

\* str::to_lowercase: the lower case of each character, one after the other
RECURSIVE to_lowercase(_)
to_lowercase(s) == IF s = <<>> THEN <<>> ELSE LowerChar(Head(s)) \o to_lowercase(Tail(s))

\* the width folding alone
NormalizeWithoutLowercase(s) ==
    [i \in 1..Len(s) |-> IF IsFullWidthAlphanumeric(s[i]) THEN s[i] - FullWidthOffset
                          ELSE s[i]]

\* .to_ascii_lowercase() first, the width folding after it
FoldAfterAsciiLowercase(s) ==
    [i \in 1..Len(s) |->
        LET c == IF s[i] \in 65..90 THEN s[i] + 32 ELSE s[i]
        IN IF IsFullWidthAlphanumeric(c) THEN c - FullWidthOffset ELSE c]

normalize_for_search(s) ==
    to_lowercase([i \in 1..Len(s) |->
                    IF IsFullWidthAlphanumeric(s[i]) THEN s[i] - FullWidthOffset ELSE s[i]])

\* the characters of needle occur in hay in this order
RECURSIVE IsSubsequence(_, _)
IsSubsequence(needle, hay) ==
    IF needle = <<>> THEN TRUE
    ELSE IF hay = <<>> THEN FALSE
    ELSE IF Head(needle) = Head(hay) THEN IsSubsequence(Tail(needle), Tail(hay))
    ELSE IsSubsequence(needle, Tail(hay))

\* SkimMatcherV2::fuzzy_match(choice, pattern) of the fuzzy-matcher crate:
\* None unless the pattern is a subsequence of the choice, else Some(score).
\* The score is whatever the matcher gives to this choice for this pattern:
\* `matcher` is any function from choices to scores.
fuzzy_match(matcher, choice, pattern) ==
    IF IsSubsequence(pattern, choice) THEN Some(matcher[choice]) ELSE None

NameScoreOnly(name_score, original_score) == name_score

\* match (name_score, original_score) { (Some(ns), Some(os)) => Some(ns.max(os)), .. }
BestScore(name_score, original_score) ==
    CASE name_score # None /\ original_score # None ->
            Some(IF name_score[1] >= original_score[1] THEN name_score[1]
                 ELSE original_score[1])
      [] name_score # None /\ original_score = None -> name_score
      [] name_score = None /\ original_score # None -> original_score
      [] OTHER -> None

\* the closure of filter_map in search_apps
ScoreOfApp(matcher, app, normalized_query) ==
    LET name_score == fuzzy_match(matcher, normalize_for_search(app.name), normalized_query)
        original_score ==
            IF app.original_name = None THEN None
            ELSE fuzzy_match(matcher, normalize_for_search(app.original_name[1]),
                             normalized_query)
    IN BestScore(name_score, original_score)

ScoreOfDirectory(matcher, dir, normalized_query) ==
    fuzzy_match(matcher, normalize_for_search(dir.name), normalized_query)

CommandKeyIsCommand(cmd) == cmd.command

\* normalize_for_search(&cmd.alias)
CommandKey(cmd) == cmd.alias

ScoreOfCommand(matcher, cmd, normalized_query) ==
    fuzzy_match(matcher, normalize_for_search(CommandKey(cmd)), normalized_query)

\* .filter_map(..).collect(): the items with a score, in the order of the input
FilterMap(items, score_of) ==
    LET scored == [i \in 1..Len(items) |-> [score |-> score_of[i], item |-> items[i]]]
        kept == SelectSeq(scored, LAMBDA r : r.score # None)
    IN [i \in 1..Len(kept) |-> [score |-> kept[i].score[1], item |-> kept[i].item]]

Unsorted(results) == results

\* results.sort_by(|a, b| b.0.cmp(&a.0)): a stable sort, highest score first
RECURSIVE SortedFrom(_, _)
SortedFrom(results, scores) ==
    IF scores = {} THEN <<>>
    ELSE LET highest == CHOOSE x \in scores : \A y \in scores : y <= x
         IN SelectSeq(results, LAMBDA r : r.score = highest)
              \o SortedFrom(results, scores \ {highest})

Reversed(results) == [i \in 1..Len(results) |-> results[Len(results) + 1 - i]]

\* a sort that does not keep equal elements in the order they came in
SortByScoreDescendingUnstable(results) ==
    SortedFrom(Reversed(results), {results[i].score : i \in 1..Len(results)})

SortByScoreDescending(results) ==
    SortedFrom(results, {results[i].score : i \in 1..Len(results)})

TakeAll(results, n) == results

\* .into_iter().take(n)
Take(results, n) == SubSeq(results, 1, Min(n, Len(results)))

\* take(20)
TopN == 20

QueryIsNeverEmpty(query) == FALSE

\* query.is_empty()
QueryIsEmpty(query) == Len(query) = 0

\* the rest of each search function once the scores are there: sort, take,
\* and the scored list kept beside the items returned
Ranked(query, results) ==
    IF QueryIsEmpty(query) THEN [query |-> query, scored |-> <<>>, results |-> <<>>]
    ELSE LET sorted == SortByScoreDescending(results)
             top == Take(sorted, TopN)
         IN [query |-> query, scored |-> sorted,
             results |-> [i \in 1..Len(top) |-> top[i].item]]

SearchApps(matcher, items, query) ==
    Ranked(query,
           FilterMap(items, [i \in 1..Len(items) |->
                               ScoreOfApp(matcher, items[i], normalize_for_search(query))]))

SearchDirectories(matcher, items, query) ==
    Ranked(query,
           FilterMap(items, [i \in 1..Len(items) |->
                               ScoreOfDirectory(matcher, items[i],
                                                normalize_for_search(query))]))

SearchCommands(matcher, items, query) ==
    Ranked(query,
           FilterMap(items, [i \in 1..Len(items) |->
                               ScoreOfCommand(matcher, items[i],
                                              normalize_for_search(query))]))

CommandItem(a, c, w) == [alias |-> a, command |-> c, working_directory |-> w]

\* the search keys of the items of a collection, normalized
AppKeys(items) ==
    {normalize_for_search(items[i].name) : i \in 1..Len(items)}
        \cup {normalize_for_search(items[i].original_name[1]) :
                i \in {j \in 1..Len(items) : items[j].original_name # None}}
DirKeys(items) == {normalize_for_search(items[i].name) : i \in 1..Len(items)}
CommandKeys(items) == {normalize_for_search(CommandKey(items[i])) : i \in 1..Len(items)}

ScoreValues == {1, 2}

\* every scoring the matcher may give to the keys the query matches
Matchers(keys, query) ==
    [{k \in keys : IsSubsequence(normalize_for_search(query), k)} -> ScoreValues]

search_apps(query) ==
    /\ \E matcher \in Matchers(AppKeys(state_apps), query) :
          ret' = Call("search_apps", TRUE, "ok", FALSE,
                      SearchApps(matcher, state_apps, query) @@ [matcher |-> matcher])
    /\ UNCHANGED <<apps, directories, metadata, now, saved, schema, appVars>>
    /\ UNCHANGED threadVars

search_directories(query) ==
    /\ \E matcher \in Matchers(DirKeys(state_directories), query) :
          ret' = Call("search_directories", TRUE, "ok", FALSE,
                      SearchDirectories(matcher, state_directories, query)
                        @@ [matcher |-> matcher])
    /\ UNCHANGED <<apps, directories, metadata, now, saved, schema, appVars>>
    /\ UNCHANGED threadVars

search_commands(query) ==
    /\ \E matcher \in Matchers(CommandKeys(state_commands), query) :
          ret' = Call("search_commands", TRUE, "ok", FALSE,
                      SearchCommands(matcher, state_commands, query)
                        @@ [matcher |-> matcher])
    /\ UNCHANGED <<apps, directories, metadata, now, saved, schema, appVars>>
    /\ UNCHANGED threadVars

\* "App", "Terminal", "ターミナル", "Maps", "Ａｐ" (full-width A and p), "ls", "/"
NameApp == <<65, 112, 112>>
NameTerminal == <<84, 101, 114, 109, 105, 110, 97, 108>>
NameTerminalJa == <<12479, 12540, 12511, 12490, 12523>>
NameMaps == <<77, 97, 112, 115>>
NameApFullWidth == <<65313, 65360>>
TextLs == <<108, 115>>
PathRoot == <<47>>

\* the queries "", "app", "ＡＰ" (full-width), "ter", "ターミナル", "xyz"
Queries ==
    {<<>>, <<97, 112, 112>>, <<65313, 65328>>, <<116, 101, 114>>, NameTerminalJa,
     <<120, 121, 122>>}

\* the largest number of look-alike items in a collection
MaxBulk == 30

BulkCounts == {0, 2, MaxBulk}

\* the names "App0", "App1", "App0", ..: every one matches "app"
BulkName(i) == NameApp \o DigitsOf(i % 2)

PathOf(i) == PathRoot \o DigitsOf(i)

\* three items with an original name, without one, and with a full-width name
SpecialApps(first) ==
    <<AppItem(NameTerminalJa, PathOf(first), None, Some(NameTerminal)),
      AppItem(NameSafari, PathOf(first + 1), Some("icon.png"), None),
      AppItem(NameApFullWidth, PathOf(first + 2), None, Some(NameMaps))>>

SpecialDirectories(first) ==
    <<DirectoryItem(NameTerminalJa, PathOf(first), None),
      DirectoryItem(NameSafari, PathOf(first + 1), Some("cursor")),
      DirectoryItem(NameApFullWidth, PathOf(first + 2), None)>>

\* the first command has the text "Terminal" and an alias without these letters
SpecialCommands(first) ==
    <<CommandItem(NameTerminalJa, NameTerminal, None),
      CommandItem(NameSafari, TextLs, Some(PathOf(first + 1))),
      CommandItem(NameApFullWidth, NameMaps, None)>>

BulkApps(first, n) == [i \in 1..n |-> AppItem(BulkName(i), PathOf(first + i - 1), None, None)]
BulkDirectories(first, n) ==
    [i \in 1..n |-> DirectoryItem(BulkName(i), PathOf(first + i - 1), None)]
BulkCommands(first, n) ==
    [i \in 1..n |-> CommandItem(BulkName(i), TextLs \o DigitsOf(first + i - 1), None)]

Placements == {"none", "front", "back"}

\* a collection: n look-alike items, the special ones before them, after
\* them or left out
Collection(placement, special, bulk_after, bulk) ==
    CASE placement = "none" -> bulk
      [] placement = "front" -> special \o bulk_after
      [] placement = "back" -> bulk \o special

InitSearch ==
    /\ CacheFile(FALSE)
    /\ pc = [t \in Threads |-> "idle"]
    /\ cache_db = NoThread
    /\ local = [t \in Threads |-> NoLocals]
    /\ tx = NoTx
    /\ seen = NothingSeen
    /\ requests = 0
    /\ \E placement \in Placements, n \in BulkCounts :
          /\ state_apps = Collection(placement, SpecialApps(IF placement = "front" THEN 0 ELSE n),
                                   BulkApps(3, n), BulkApps(0, n))
          /\ state_directories = Collection(placement, SpecialDirectories(IF placement = "front" THEN 0 ELSE n),
                                   BulkDirectories(3, n), BulkDirectories(0, n))
          /\ state_commands = Collection(placement, SpecialCommands(IF placement = "front" THEN 0 ELSE n),
                                   BulkCommands(3, n), BulkCommands(0, n))
          /\ AppStateIdle

NextSearch ==
    \E query \in Queries :
        \/ search_apps(query)
        \/ search_directories(query)
        \/ search_commands(query)

SpecSearch == InitSearch /\ [][NextSearch]_vars

-----------------------------------------------------------------------------
(* Properties of the search *)

SearchOps == {"search_apps", "search_directories", "search_commands"}

\* the collection the last search ran on
Searched ==
    CASE ret.op = "search_apps" -> state_apps
      [] ret.op = "search_directories" -> state_directories
      [] ret.op = "search_commands" -> state_commands
      [] OTHER -> <<>>

\* C16: search_apps, search_directories and search_commands return the empty
\* list for the empty query, whatever the collection holds; the empty query
\* never matches everything.
C16_EmptyQueryGivesNothing ==
    ret.op \in SearchOps /\ ret.value.query = <<>> => ret.value.results = <<>>

C16_Witness ==
    /\ ret.op = "search_commands"
    /\ ret.value.query = <<>>
    /\ ret.value.results = <<>>
    /\ Len(state_commands) > TopN

\* the item matches the query: the normalized query is a subsequence of one
\* of the normalized keys the operation looks at
MatchesQuery(op, item, query) ==
    LET q == normalize_for_search(query)
    IN CASE op = "search_apps" ->
              \/ IsSubsequence(q, normalize_for_search(item.name))
              \/ /\ item.original_name # None
                 /\ IsSubsequence(q, normalize_for_search(item.original_name[1]))
         [] op = "search_directories" -> IsSubsequence(q, normalize_for_search(item.name))
         [] op = "search_commands" -> IsSubsequence(q, normalize_for_search(item.alias))
         [] OTHER -> FALSE

\* the positions of the searched collection that match the query of the last search
Matching == {i \in 1..Len(Searched) : MatchesQuery(ret.op, Searched[i], ret.value.query)}

\* C17: for a non-empty query the result of search_apps, search_directories
\* and search_commands has min(20, number of matching items) entries: never
\* more than 20, and exactly 20 when 30 items all match.
C17_AtMostTwenty ==
    ret.op \in SearchOps /\ ret.value.query # <<>> =>
        Len(ret.value.results) = Min(20, Cardinality(Matching))

C17_Witness ==
    /\ ret.op = "search_apps"
    /\ ret.value.query # <<>>
    /\ Len(state_apps) >= 30
    /\ Cardinality(Matching) = Len(state_apps)
    /\ Len(ret.value.results) = 20

\* the normalized keys of an item that the query of the last search matches
MatchedKeys(item) ==
    LET q == normalize_for_search(ret.value.query)
        keys == CASE ret.op = "search_apps" ->
                       {normalize_for_search(item.name)}
                           \cup (IF item.original_name = None THEN {}
                                 ELSE {normalize_for_search(item.original_name[1])})
                  [] ret.op = "search_commands" -> {normalize_for_search(item.alias)}
                  [] OTHER -> {normalize_for_search(item.name)}
    IN {k \in keys : IsSubsequence(q, k)}

\* the score of a matching item in the last search: the highest score the
\* matcher of that call gave to one of its matched keys
ItemScore(item) ==
    CHOOSE x \in {ret.value.matcher[k] : k \in MatchedKeys(item)} :
        \A k \in MatchedKeys(item) : ret.value.matcher[k] <= x

\* C18: the result of each search is ordered by score, highest first, and
\* the items kept are the best ones: no returned item has a lower score than
\* a later one, and no matching item left out has a strictly higher score
\* than a returned one.
C18_BestFirst ==
    ret.op \in SearchOps /\ ret.value.query # <<>> =>
        LET results == ret.value.results
        IN /\ \A i, j \in 1..Len(results) :
                  i < j => ItemScore(results[i]) >= ItemScore(results[j])
           /\ \A k \in Matching :
                  Searched[k] \notin Range(results) =>
                      \A i \in 1..Len(results) :
                          ItemScore(Searched[k]) <= ItemScore(results[i])

C18_Witness ==
    /\ ret.op = "search_directories"
    /\ ret.value.query # <<>>
    /\ Cardinality(Matching) > 20
    /\ Len(ret.value.results) = 20
    /\ ItemScore(ret.value.results[1]) > ItemScore(ret.value.results[20])
    /\ ret.value.results[1] # state_directories[1]

\* how many times the item occurs in the list
Occurrences(items, item) == Cardinality({i \in 1..Len(items) : items[i] = item})

\* C19: search_apps scores an app with the maximum of the scores of its
\* normalized name and its normalized original_name, with the one that
\* matched when only one does; the app is found when either field matches,
\* and an app matching on both fields is in the result once.
C19_BestOfNameAndOriginalName ==
    ret.op = "search_apps" /\ ret.value.query # <<>> =>
        LET scored == ret.value.scored
            results == ret.value.results
        IN /\ \A i \in 1..Len(scored) : scored[i].score = ItemScore(scored[i].item)
           /\ {scored[i].item : i \in 1..Len(scored)} = {state_apps[k] : k \in Matching}
           /\ Len(scored) = Cardinality(Matching)
           /\ Cardinality(Matching) <= 20 =>
                  \A k \in Matching : Occurrences(results, state_apps[k]) = 1
           /\ \A i \in 1..Len(results) : Occurrences(results, results[i]) = 1

C19_Witness ==
    /\ ret.op = "search_apps"
    /\ normalize_for_search(ret.value.query) = <<97, 112>>
    /\ \E i \in 1..Len(ret.value.scored) :
          LET hit == ret.value.scored[i]
          IN /\ hit.item.name = NameApFullWidth
             /\ hit.item.original_name = Some(NameMaps)
             /\ ret.value.matcher[<<97, 112>>] = 1
             /\ ret.value.matcher[normalize_for_search(NameMaps)] = 2
             /\ hit.score = 2
             /\ Occurrences(ret.value.results, hit.item) = 1

\* C20: for a non-empty query an item is returned only if the normalized
\* query is a subsequence of its normalized search key (name or
\* original_name for apps, name for directories, alias for commands, never
\* the command text), and when at most 20 items are so, all of them are returned.
C20_ReturnedIffKeyMatches ==
    ret.op \in SearchOps /\ ret.value.query # <<>> =>
        LET results == ret.value.results
        IN /\ \A i \in 1..Len(results) :
                  MatchesQuery(ret.op, results[i], ret.value.query)
           /\ Cardinality(Matching) <= 20 =>
                  \A k \in Matching : Searched[k] \in Range(results)

C20_Witness ==
    /\ ret.op = "search_commands"
    /\ ret.value.query # <<>>
    /\ \E k \in 1..Len(state_commands) :
          /\ IsSubsequence(normalize_for_search(ret.value.query),
                           normalize_for_search(state_commands[k].command))
          /\ state_commands[k] \notin Range(ret.value.results)
    /\ Len(state_commands) > 3
    /\ ret.value.results = <<>>

-----------------------------------------------------------------------------
(* normalize_for_search as a function of its argument *)

\* the longest string handed to normalize_for_search
MaxChars == 2

\* 'A' 'Z' 'a' '0', the ends of the three full-width ranges, the code points
\* next to them (full-width / : @ [ ` {), katakana タ, kanji 漢 and U+0130
CharUniverse ==
    {65, 90, 97, 48,
     65313, 65338, 65345, 65370, 65296, 65305,
     65295, 65306, 65312, 65339, 65344, 65371,
     12479, 28450, 304}

Strings == ListsOf(CharUniverse, MaxChars)

\* one call of normalize_for_search on the alias of a command, as
\* search_commands makes it, and a second one on what it returned
normalize(s) ==
    /\ ret' = Call("normalize_for_search", TRUE, "ok", FALSE,
                   [input |-> s,
                    output |-> normalize_for_search(s),
                    again |-> normalize_for_search(normalize_for_search(s))])
    /\ UNCHANGED <<apps, directories, metadata, now, saved, schema, appVars>>
    /\ UNCHANGED threadVars

InitNormalize ==
    /\ CacheFile(FALSE)
    /\ pc = [t \in Threads |-> "idle"]
    /\ cache_db = NoThread
    /\ local = [t \in Threads |-> NoLocals]
    /\ tx = NoTx
    /\ state_apps = <<>>
    /\ state_directories = <<>>
    /\ seen = NothingSeen
    /\ requests = 0
    /\ \E alias \in Strings : state_commands = <<CommandItem(alias, TextLs, None)>>
    /\ AppStateIdle

NextNormalize == \E i \in 1..Len(state_commands) : normalize(state_commands[i].alias)

SpecNormalize == InitNormalize /\ [][NextNormalize]_vars

\* C21: normalize_for_search is idempotent, normalize(normalize(s)) =
\* normalize(s) for every string s; it gives a result for every string and
\* the empty string for the empty string.
C21_NormalizeIdempotent ==
    ret.op = "normalize_for_search" =>
        /\ ret.ok
        /\ ret.value.again = ret.value.output
        /\ ret.value.input = <<>> => ret.value.output = <<>>

C21_Witness ==
    /\ ret.op = "normalize_for_search"
    /\ ret.value.input = <<65313, 304>>
    /\ ret.value.output = <<97, 105, 775>>
    /\ ret.value.again = ret.value.output

\* what the three full-width ranges fold to, what 'A'..'Z' and U+0130 lower
\* to, and every other character as it is
Folded(c) ==
    CASE c \in 65313..65338 -> <<c - 65248 + 32>>
      [] c \in 65345..65370 -> <<c - 65248>>
      [] c \in 65296..65305 -> <<c - 65248>>
      [] c \in 65..90 -> <<c + 32>>
      [] c = 304 -> <<105, 775>>
      [] OTHER -> <<c>>

RECURSIVE FoldedAll(_)
FoldedAll(s) == IF s = <<>> THEN <<>> ELSE Folded(Head(s)) \o FoldedAll(Tail(s))

OutsideFullWidthRanges(c) ==
    c \notin (65313..65338) \cup (65345..65370) \cup (65296..65305)

\* C22 as stated: full-width letters and digits become their half-width
\* lower-case equivalents, and a string of characters outside the three
\* ranges keeps its number of characters.
C22_Original ==
    ret.op = "normalize_for_search" =>
        /\ \A i \in 1..Len(ret.value.input) :
              ~OutsideFullWidthRanges(ret.value.input[i]) =>
                  normalize_for_search(<<ret.value.input[i]>>) = Folded(ret.value.input[i])
        /\ (\A i \in 1..Len(ret.value.input) : OutsideFullWidthRanges(ret.value.input[i])) =>
              Len(ret.value.output) = Len(ret.value.input)

\* C22 (amended): normalize_for_search maps every full-width Latin letter
\* and digit to its half-width equivalent (code point minus 0xFEE0) in lower
\* case; a character outside the three ranges is not width-folded, only
\* lower-cased, and the number of characters is kept except for U+0130, which
\* becomes two characters.
C22_FullWidthFolded ==
    ret.op = "normalize_for_search" =>
        /\ ret.value.output = FoldedAll(ret.value.input)
        /\ Len(ret.value.output) =
              Len(ret.value.input)
                  + Cardinality({i \in 1..Len(ret.value.input) : ret.value.input[i] = 304})

C22_Witness ==
    /\ ret.op = "normalize_for_search"
    /\ ret.value.input = <<65338, 65295>>
    /\ ret.value.output = <<122, 65295>>

-----------------------------------------------------------------------------
(* Search with queries and names that differ in case and width only *)

\* "saf", "SAF", "ｓａｆ", "ap", "Ap", "ＡＰ", "ter"
FoldQueries ==
    {<<115, 97, 102>>, <<83, 65, 70>>, <<65363, 65345, 65350>>,
     <<97, 112>>, <<65, 112>>, <<65313, 65328>>,
     <<116, 101, 114>>}

FoldCounts == {0, 2}

InitFold ==
    /\ CacheFile(FALSE)
    /\ pc = [t \in Threads |-> "idle"]
    /\ cache_db = NoThread
    /\ local = [t \in Threads |-> NoLocals]
    /\ tx = NoTx
    /\ seen = NothingSeen
    /\ requests = 0
    /\ \E placement \in Placements, n \in FoldCounts :
          /\ state_apps = Collection(placement, SpecialApps(IF placement = "front" THEN 0 ELSE n),
                                   BulkApps(3, n), BulkApps(0, n))
          /\ state_directories = Collection(placement, SpecialDirectories(IF placement = "front" THEN 0 ELSE n),
                                   BulkDirectories(3, n), BulkDirectories(0, n))
          /\ state_commands = Collection(placement, SpecialCommands(IF placement = "front" THEN 0 ELSE n),
                                   BulkCommands(3, n), BulkCommands(0, n))
          /\ AppStateIdle

NextFold ==
    \E query \in FoldQueries :
        \/ search_apps(query)
        \/ search_directories(query)
        \/ search_commands(query)

SpecFold == InitFold /\ [][NextFold]_vars

\* the same text in another case and width: half-width letters and digits
\* become full-width ones of the other case, full-width ones half-width
OtherForm(s) ==
    [i \in 1..Len(s) |->
        CASE s[i] \in 97..122 -> s[i] - 32 + 65248
          [] s[i] \in 65..90 -> s[i] + 32 + 65248
          [] s[i] \in 48..57 -> s[i] + 65248
          [] s[i] \in 65313..65338 -> s[i] - 65248 + 32
          [] s[i] \in 65345..65370 -> s[i] - 65248 - 32
          [] s[i] \in 65296..65305 -> s[i] - 65248
          [] OTHER -> s[i]]

\* the key an item has besides original_name: alias for a command, else name
SearchKey(op, item) == IF op = "search_commands" THEN item.alias ELSE item.name

\* the item with its search key (name, alias for a command) in the other form
Renamed(op, item) ==
    IF op = "search_commands" THEN [item EXCEPT !.alias = OtherForm(@)]
    ELSE [item EXCEPT !.name = OtherForm(@)]

\* the normalized keys of the item that the query matches
KeysMatching(op, item, query) ==
    LET keys == CASE op = "search_apps" ->
                       {normalize_for_search(item.name)}
                           \cup (IF item.original_name = None THEN {}
                                 ELSE {normalize_for_search(item.original_name[1])})
                  [] op = "search_commands" -> {normalize_for_search(item.alias)}
                  [] OTHER -> {normalize_for_search(item.name)}
    IN {k \in keys : IsSubsequence(normalize_for_search(query), k)}

\* the search of the last call, run on other items or with another query
SearchAgain(items, query) ==
    CASE ret.op = "search_apps" -> SearchApps(ret.value.matcher, items, query).results
      [] ret.op = "search_directories" ->
             SearchDirectories(ret.value.matcher, items, query).results
      [] ret.op = "search_commands" -> SearchCommands(ret.value.matcher, items, query).results

\* C23: search does not depend on the case and width of the query or of the
\* item keys: two non-empty queries with the same normalization give the
\* same list, and an item whose name is replaced by a string with the same
\* normalization is found at the same place.
C23_CaseAndWidthInsensitive ==
    ret.op \in SearchOps /\ ret.value.query # <<>> =>
        /\ \A q \in FoldQueries \cup {OtherForm(ret.value.query)} :
              FoldedAll(q) = FoldedAll(ret.value.query) =>
                  /\ \A i \in 1..Len(Searched) :
                         KeysMatching(ret.op, Searched[i], q)
                             = KeysMatching(ret.op, Searched[i], ret.value.query)
                  /\ SearchAgain(Searched, q) = ret.value.results
        /\ LET renamed == [i \in 1..Len(Searched) |-> Renamed(ret.op, Searched[i])]
           IN /\ \A i \in 1..Len(Searched) :
                     FoldedAll(SearchKey(ret.op, renamed[i]))
                         = FoldedAll(SearchKey(ret.op, Searched[i]))
              /\ \A i \in 1..Len(Searched) :
                     KeysMatching(ret.op, renamed[i], ret.value.query)
                         = KeysMatching(ret.op, Searched[i], ret.value.query)
              /\ SearchAgain(renamed, ret.value.query)
                     = [i \in 1..Len(ret.value.results) |->
                           Renamed(ret.op, ret.value.results[i])]

C23_Witness ==
    /\ ret.op = "search_apps"
    /\ ret.value.query = <<65363, 65345, 65350>>
    /\ Len(state_apps) > 3
    /\ Len(ret.value.results) = 1
    /\ ret.value.results[1].name = NameSafari
    /\ SearchAgain(state_apps, <<83, 65, 70>>) = ret.value.results

-----------------------------------------------------------------------------
(* SettingsManager (src-tauri/src/settings.rs): directories and commands *)

CustomCommand(a, c, w) == [alias |-> a, command |-> c, working_directory |-> w]
RegisteredDirectory(p, s) == [path |-> p, scan_for_apps |-> s]

\* the registered directories and custom commands a caller can hand over:
\* two paths, two aliases, and for each key two entries that differ
DirectoryUniverse ==
    {RegisteredDirectory(p, s) : p \in {"/d/1", "/d/2"}, s \in BOOLEAN}
CommandUniverse ==
    {CustomCommand(a, c, None) : a \in {NameMa, NameMail}, c \in {TextLs, NameTerminal}}

\* the position of the first entry with this path, 0 when there is none:
\* .iter_mut().find(|d| d.path == dir.path)
FindDirectory(entries, path) ==
    IF \E i \in 1..Len(entries) : entries[i].path = path
    THEN CHOOSE i \in 1..Len(entries) :
            /\ entries[i].path = path
            /\ \A j \in 1..(i - 1) : entries[j].path # path
    ELSE 0

\* .iter_mut().find(|c| c.alias == cmd.alias)
FindCommand(entries, alias) ==
    IF \E i \in 1..Len(entries) : entries[i].alias = alias
    THEN CHOOSE i \in 1..Len(entries) :
            /\ entries[i].alias = alias
            /\ \A j \in 1..(i - 1) : entries[j].alias # alias
    ELSE 0

\* settings.registered_directories.push(dir), whatever the list holds
PushDirectory(entries, dir) == Append(entries, dir)

\* add_directory: *existing = dir, or push(dir)
AddDirectoryTo(entries, dir) ==
    IF FindDirectory(entries, dir.path) # 0
    THEN [entries EXCEPT ![FindDirectory(entries, dir.path)] = dir]
    ELSE Append(entries, dir)

\* add_command: *existing = cmd, or push(cmd)
AddCommandTo(entries, cmd) ==
    IF FindCommand(entries, cmd.alias) # 0
    THEN [entries EXCEPT ![FindCommand(entries, cmd.alias)] = cmd]
    ELSE Append(entries, cmd)

\* settings.registered_directories.retain(|d| d.path != path)
RemoveDirectoryFrom(entries, path) == SelectSeq(entries, LAMBDA d : d.path # path)

\* settings.custom_commands.retain(|c| c.alias != alias)
RemoveCommandFrom(entries, alias) == SelectSeq(entries, LAMBDA c : c.alias # alias)

\* what can go wrong in save_settings: create_dir_all, fs::write
SettingsFaults == {"ok", "write"}

\* save_settings: the file first, and only then the settings in memory
SaveSettings(new_settings, io) == IF io = "ok" THEN new_settings ELSE settings

\* one call of SettingsManager by one caller, from get_settings to save_settings
SettingsCall(op, arg, new_settings, io) ==
    /\ settings' = SaveSettings(new_settings, io)
    /\ ret' = Call(op, io = "ok", io, FALSE, [arg |-> arg, before |-> settings])
    /\ UNCHANGED <<apps, directories, metadata, now, saved, schema>>
    /\ UNCHANGED <<state_commands, snapshot_lock, search_engine>>
    /\ UNCHANGED threadVars

add_directory(dir, io) ==
    SettingsCall("add_directory", dir,
                 [settings EXCEPT !.registered_directories = AddDirectoryTo(@, dir)], io)

remove_directory(path, io) ==
    SettingsCall("remove_directory", path,
                 [settings EXCEPT !.registered_directories = RemoveDirectoryFrom(@, path)], io)

add_command(cmd, io) ==
    SettingsCall("add_command", cmd,
                 [settings EXCEPT !.custom_commands = AddCommandTo(@, cmd)], io)

remove_command(alias, io) ==
    SettingsCall("remove_command", alias,
                 [settings EXCEPT !.custom_commands = RemoveCommandFrom(@, alias)], io)

UniqueBy(entries, field) ==
    \A i, j \in 1..Len(entries) : entries[i][field] = entries[j][field] => i = j

\* the settings file as earlier runs left it: entries without duplicates
InitSettings ==
    /\ CacheFile(FALSE)
    /\ pc = [t \in Threads |-> "idle"]
    /\ cache_db = NoThread
    /\ local = [t \in Threads |-> NoLocals]
    /\ tx = NoTx
    /\ state_apps = <<>>
    /\ state_directories = <<>>
    /\ seen = NothingSeen
    /\ requests = 0
    /\ state_commands = <<>>
    /\ snapshot_lock = NoLocks
    /\ search_engine = NoScores
    /\ \E d \in ListsOf(DirectoryUniverse, MaxItems), c \in ListsOf(CommandUniverse, MaxItems) :
          /\ UniqueBy(d, "path")
          /\ UniqueBy(c, "alias")
          /\ settings = [NoSettings EXCEPT !.registered_directories = d,
                                           !.custom_commands = c]

NextSettings ==
    \E io \in SettingsFaults :
        \/ \E dir \in DirectoryUniverse : add_directory(dir, io)
        \/ \E dir \in DirectoryUniverse : remove_directory(dir.path, io)
        \/ \E cmd \in CommandUniverse : add_command(cmd, io)
        \/ \E cmd \in CommandUniverse : remove_command(cmd.alias, io)

SpecSettings == InitSettings /\ [][NextSettings]_vars

\* C29: SettingsManager keeps registered directories unique by path and
\* custom commands unique by alias; adding an entry whose key is there
\* replaces that entry where it stands and the count stays, adding a new key
\* appends, and remove deletes every entry with the key and no other.
C29_SettingsKeysUnique ==
    /\ UniqueBy(settings.registered_directories, "path")
    /\ UniqueBy(settings.custom_commands, "alias")
    /\ ret.op \in {"add_directory", "remove_directory", "add_command", "remove_command"}
       /\ ret.ok =>
          LET field == IF ret.op \in {"add_directory", "remove_directory"}
                       THEN "registered_directories" ELSE "custom_commands"
              other == IF field = "registered_directories"
                       THEN "custom_commands" ELSE "registered_directories"
              key == IF field = "registered_directories" THEN "path" ELSE "alias"
              before == ret.value.before[field]
              after == settings[field]
              arg == ret.value.arg
          IN /\ settings[other] = ret.value.before[other]
             /\ ret.op \in {"add_directory", "add_command"} =>
                   IF \E i \in 1..Len(before) : before[i][key] = arg[key]
                   THEN /\ Len(after) = Len(before)
                        /\ \A i \in 1..Len(before) :
                              after[i] = IF before[i][key] = arg[key] THEN arg ELSE before[i]
                   ELSE after = before \o <<arg>>
             /\ ret.op \in {"remove_directory", "remove_command"} =>
                   /\ \A i \in 1..Len(after) : after[i][key] # arg
                   /\ after = SelectSeq(before, LAMBDA e : e[key] # arg)

C29_Witness ==
    /\ ret.op = "add_directory"
    /\ ret.ok
    /\ Len(ret.value.before.registered_directories) = 2
    /\ ret.value.before.registered_directories[2].path = ret.value.arg.path
    /\ ret.value.before.registered_directories[2] # ret.value.arg
    /\ settings.registered_directories
          = [ret.value.before.registered_directories EXCEPT ![2] = ret.value.arg]

-----------------------------------------------------------------------------
(* The commands of the front end (src-tauri/src/lib.rs), statement by
   statement: search_apps, search_directories, search_commands,
   add_command, remove_command and refresh_commands *)

SnapshotOf(k) ==
    CASE k = "apps" -> state_apps
      [] k = "directories" -> state_directories
      [] k = "commands" -> state_commands

\* the queries typed while the application runs: "a" and full-width "Ｍ"
LiveQueries == {<<97>>, <<65325>>}

\* the normalized keys of every item the snapshots can hold
LiveKeys ==
    {normalize_for_search(k) : k \in {NameMail, NameSafari, NameMa, NameT}}

\* two matchers: one scores every match alike, one prefers "mail"
LiveEngines ==
    {[p \in {normalize_for_search(q) : q \in LiveQueries} |-> [k \in LiveKeys |-> 1]],
     [p \in {normalize_for_search(q) : q \in LiveQueries} |->
        [k \in LiveKeys |-> IF k = normalize_for_search(NameMail) THEN 2 ELSE 1]]}

\* a matcher that keeps what it has scored: its scores go up with every search
EngineWithMemory(engine) ==
    [p \in DOMAIN engine |-> [k \in DOMAIN engine[p] |-> engine[p][k] + 1]]

\* search_apps(&self, ..): the engine after a search is the engine before it
EngineAfterSearch(engine) == engine

\* what the engine returns for the items it was given
EngineSearch(k, items, query) ==
    LET matcher == search_engine[normalize_for_search(query)]
    IN CASE k = "apps" -> SearchApps(matcher, items, query).results
         [] k = "directories" -> SearchDirectories(matcher, items, query).results
         [] k = "commands" -> SearchCommands(matcher, items, query).results

\* .filter(|app| !excluded_apps.contains(&app.path)), in search_apps only
CommandResult(k, found, excluded_apps) ==
    IF k = "apps" THEN SelectSeq(found, LAMBDA app : app.path \notin excluded_apps)
    ELSE found

\* the threads inside a command or a refresh
InProgress == {u \in Threads : pc[u] \notin {"idle", "done"}}

\* the front end invokes one of the three search commands
SearchCall(t, k, query) ==
    /\ pc[t] = "idle"
    /\ local' = [local EXCEPT ![t].kind = k, ![t].query = query,
                              ![t].beside = InProgress]
    /\ Goto(t, "search_lock")
    /\ UNCHANGED <<cache_db, tx, state_apps, state_directories, seen, requests>>
    /\ UNCHANGED storeVars
    /\ UNCHANGED appVars

\* let apps = state.apps.lock().unwrap(); (directories, commands alike)
SearchLock(t) ==
    /\ pc[t] = "search_lock"
    /\ CanLockSnapshot(local[t].kind)
    /\ snapshot_lock' = [snapshot_lock EXCEPT ![local[t].kind] = t]
    /\ local' = [local EXCEPT ![t].at_lock = Some(SnapshotOf(local[t].kind))]
    /\ Goto(t, IF local[t].kind = "apps" THEN "search_settings" ELSE "search_iter")
    /\ UNCHANGED <<cache_db, tx, state_apps, state_directories, seen, requests>>
    /\ UNCHANGED storeVars
    /\ UNCHANGED <<state_commands, search_engine, settings>>

\* search_apps reading the excluded applications from the cache store: it
\* asks for cache_db with the guard of apps in hand
SearchSettingsFromStore(t) ==
    /\ pc[t] = "search_settings"
    /\ CanLock(t)
    /\ local' = [local EXCEPT ![t].excluded_apps = settings.excluded_apps]
    /\ Goto(t, "search_iter")
    /\ UNCHANGED <<cache_db, tx, state_apps, state_directories, seen, requests>>
    /\ UNCHANGED storeVars
    /\ UNCHANGED appVars

\* let settings = state.settings_manager.get_settings(); in search_apps
SearchSettings(t) ==
    /\ pc[t] = "search_settings"
    /\ CanLockSnapshot("settings")
    /\ local' = [local EXCEPT ![t].excluded_apps = settings.excluded_apps]
    /\ Goto(t, "search_iter")
    /\ UNCHANGED <<cache_db, tx, state_apps, state_directories, seen, requests>>
    /\ UNCHANGED storeVars
    /\ UNCHANGED appVars

\* apps.iter(): the engine walks the slice behind the guard, item by item
SearchIter(t) ==
    /\ pc[t] = "search_iter"
    /\ LET items == SnapshotOf(local[t].kind)
           n == Len(local[t].read)
       IN IF n < Len(items)
          THEN /\ local' = [local EXCEPT ![t].read = Append(@, items[n + 1])]
               /\ UNCHANGED pc
          ELSE /\ Goto(t, "search_return")
               /\ UNCHANGED local
    /\ UNCHANGED <<cache_db, tx, state_apps, state_directories, seen, requests>>
    /\ UNCHANGED storeVars
    /\ UNCHANGED appVars

\* the scores, the sort, take(20), the filter of search_apps; the command
\* returns and the guard is dropped
SearchReturn(t) ==
    /\ pc[t] = "search_return"
    /\ local' = [local EXCEPT ![t].results =
                    Some(CommandResult(local[t].kind,
                                       EngineSearch(local[t].kind, local[t].read,
                                                    local[t].query),
                                       local[t].excluded_apps))]
    /\ search_engine' = EngineAfterSearch(search_engine)
    /\ snapshot_lock' = [snapshot_lock EXCEPT
                            ![local[t].kind] = IF @ = t THEN NoThread ELSE @]
    /\ Goto(t, "done")
    /\ UNCHANGED <<cache_db, tx, state_apps, state_directories, seen, requests>>
    /\ UNCHANGED storeVars
    /\ UNCHANGED <<state_commands, settings>>

\* the statements of a search command, for the thread t
Search(t) ==
    \/ SearchLock(t)
    \/ SearchSettings(t)
    \/ SearchIter(t)
    \/ SearchReturn(t)

\* the CommandItem of a CustomCommand, field by field
CommandItemOf(c) == CommandItem(c.alias, c.command, c.working_directory)

\* add_command / remove_command: state.settings_manager.add_command(command)?
EditCommands(t, new_commands, io) ==
    /\ pc[t] = "idle"
    /\ settings' = SaveSettings([settings EXCEPT !.custom_commands = new_commands], io)
    /\ IF io = "ok"
       THEN /\ Goto(t, "refresh_commands")
            /\ UNCHANGED local
       ELSE /\ Goto(t, "done")
            /\ local' = [local EXCEPT ![t].result = "err"]
    /\ UNCHANGED <<cache_db, tx, state_apps, state_directories, seen, requests>>
    /\ UNCHANGED storeVars
    /\ UNCHANGED <<state_commands, snapshot_lock, search_engine>>

\* refresh_commands: get_custom_commands() and the map to CommandItem
RefreshCommands(t) ==
    /\ pc[t] = "refresh_commands"
    /\ CanLockSnapshot("settings")
    /\ local' = [local EXCEPT ![t].command_items =
                    [i \in 1..Len(settings.custom_commands) |->
                        CommandItemOf(settings.custom_commands[i])]]
    /\ Goto(t, "publish_commands")
    /\ UNCHANGED <<cache_db, tx, state_apps, state_directories, seen, requests>>
    /\ UNCHANGED storeVars
    /\ UNCHANGED appVars

\* *state.commands.lock().unwrap() = command_items; Ok(())
PublishCommands(t) ==
    /\ pc[t] = "publish_commands"
    /\ CanLockSnapshot("commands")
    /\ state_commands' = local[t].command_items
    /\ local' = [local EXCEPT ![t].result = "ok"]
    /\ Goto(t, "done")
    /\ UNCHANGED <<cache_db, tx, state_apps, state_directories, seen, requests>>
    /\ UNCHANGED storeVars
    /\ UNCHANGED <<snapshot_lock, search_engine, settings>>

\* the custom command the settings file holds at startup
LiveCommand == CustomCommand(NameMa, TextLs, None)

\* the commands the user adds or removes: a new alias, and the alias held
LiveCommands == {CustomCommand(NameMail, TextLs, None), LiveCommand}

\* the statements of add_command and remove_command, for the thread t
Edit(t) ==
    \/ \E cmd \in LiveCommands, io \in SettingsFaults :
          EditCommands(t, AddCommandTo(settings.custom_commands, cmd), io)
    \/ \E cmd \in LiveCommands, io \in SettingsFaults :
          EditCommands(t, RemoveCommandFrom(settings.custom_commands, cmd.alias), io)
    \/ RefreshCommands(t)
    \/ PublishCommands(t)

-----------------------------------------------------------------------------
(* A search command beside a refresh and beside add_command / remove_command *)

Searcher == "ui1"

\* after setup: the snapshots as prime_cache and the load of the custom
\* commands left them, every Mutex free, no command running
InitLive ==
    /\ \E filled \in BOOLEAN :
          /\ CacheFile(filled)
          /\ state_apps = IF filled THEN <<App1>> ELSE <<>>
          /\ state_directories = IF filled THEN <<Dir2>> ELSE <<>>
          /\ local = [t \in Threads |->
                        IF t = Reader
                        THEN [NoLocals EXCEPT !.result = IF filled THEN "ok" ELSE "err"]
                        ELSE NoLocals]
    /\ pc = [t \in Threads |-> IF t = Reader THEN "done" ELSE "idle"]
    /\ cache_db = NoThread
    /\ tx = NoTx
    /\ seen = NothingSeen
    /\ requests = 0
    /\ settings = [NoSettings EXCEPT !.custom_commands = <<LiveCommand>>]
    /\ state_commands = <<CommandItemOf(LiveCommand)>>
    /\ snapshot_lock = NoLocks
    /\ search_engine \in LiveEngines

NextLive ==
    \/ Request(Writer)
    \/ Refresh(Writer)
    \/ \E k \in Snapshots, query \in LiveQueries : SearchCall(Searcher, k, query)
    \/ Search(Searcher)
    \/ Edit(Editor)

SpecLive == InitLive /\ [][NextLive]_vars

-----------------------------------------------------------------------------
(* Several threads search one engine and one snapshot at once
   (tests/app_integration.rs, test_concurrent_search) *)

\* the threads inside a search
Searching ==
    {u \in Searchers : pc[u] \in {"search_lock", "search_settings",
                                  "search_iter", "search_return"}}

\* thread::spawn(move || engine_clone.search_apps(&apps_clone, "app")): the
\* engine and the items behind an Arc, no Mutex taken
EngineCall(t, k, query) ==
    /\ pc[t] = "idle"
    /\ local' = [local EXCEPT ![t].kind = k, ![t].query = query,
                              ![t].at_lock = Some(SnapshotOf(k)),
                              ![t].beside = InProgress]
    /\ Goto(t, "search_iter")
    /\ UNCHANGED <<cache_db, tx, state_apps, state_directories, seen, requests>>
    /\ UNCHANGED storeVars
    /\ UNCHANGED appVars

\* the snapshots the threads share, the settings with one excluded application
InitSearchers ==
    /\ CacheFile(TRUE)
    /\ state_apps = <<App1, App2>>
    /\ state_directories = <<Dir1, Dir2>>
    /\ state_commands = <<CommandItemOf(LiveCommand)>>
    /\ settings \in {[NoSettings EXCEPT !.custom_commands = <<LiveCommand>>,
                                        !.excluded_apps = e] :
                        e \in {{}, {App1.path}}}
    /\ local = [t \in Threads |-> NoLocals]
    /\ pc = [t \in Threads |-> IF t \in Searchers THEN "idle" ELSE "done"]
    /\ cache_db = NoThread
    /\ tx = NoTx
    /\ seen = NothingSeen
    /\ requests = 0
    /\ snapshot_lock = NoLocks
    /\ search_engine \in LiveEngines

NextSearchers ==
    \E t \in Searchers :
        \/ \E k \in Snapshots, query \in LiveQueries : EngineCall(t, k, query)
        \/ \E k \in Snapshots, query \in LiveQueries : SearchCall(t, k, query)
        \/ Search(t)

SpecSearchers == InitSearchers /\ [][NextSearchers]_vars

\* what one call alone returns for the snapshot and the engine as they are
SequentialSearch(k, query, excluded_apps) ==
    CommandResult(k, EngineSearch(k, SnapshotOf(k), query), excluded_apps)

\* the thread t has returned from a search
Returned(t) == pc[t] = "done" /\ local[t].kind \in Snapshots

\* a step of a search in progress
SearchStep == Searching # {}

-----------------------------------------------------------------------------
(* The locks of perform_cache_refresh while it scans *)

\* the thread t holds the Mutex of some snapshot
HoldsSnapshot(t) == \E k \in Snapshots : snapshot_lock[k] = t

-----------------------------------------------------------------------------
(* What a search sees of a snapshot that a refresh replaces *)

\* the items read so far are the first items of the list
IsPrefixOf(read, list) ==
    /\ Len(read) <= Len(list)
    /\ \A i \in 1..Len(read) : read[i] = list[i]

\* C27: from the moment a search command holds its snapshot to its return,
\* the snapshot is the list it found when it took the lock, the items it has
\* read are the first items of that list, and its result is the result for
\* that whole list: the list before a replacement or the list after it, never
\* items of both.
C27_NoTornSnapshot ==
    \A t \in Searchers :
        /\ pc[t] \in {"search_settings", "search_iter", "search_return"} =>
              /\ local[t].at_lock # None
              /\ IsPrefixOf(local[t].read, local[t].at_lock[1])
              /\ SnapshotOf(local[t].kind) = local[t].at_lock[1]
        /\ Returned(t) =>
              /\ local[t].at_lock # None
              /\ local[t].read = local[t].at_lock[1]
              /\ local[t].results =
                    Some(CommandResult(local[t].kind,
                                       EngineSearch(local[t].kind, local[t].at_lock[1],
                                                    local[t].query),
                                       local[t].excluded_apps))

\* a search of the applications began while a refresh was running and
\* returned a match from the list it had locked; the refresh has since put
\* another list in its place
C27_Witness ==
    /\ Returned(Searcher)
    /\ local[Searcher].kind = "apps"
    /\ Writer \in local[Searcher].beside
    /\ local[Searcher].results # None
    /\ local[Searcher].results[1] # <<>>
    /\ state_apps # local[Searcher].at_lock[1]
    /\ pc[Writer] = "done" /\ local[Writer].result = "ok"

-----------------------------------------------------------------------------
(* The order of the writes of perform_cache_refresh *)

Publishing == {"publish_apps", "publish_directories"}

\* the thread t takes the step that leads it to the label
Reaches(t, label) == pc[t] # label /\ pc'[t] = label

\* the cache file holds what the thread t scanned, and the time of its refresh
Persisted(t) ==
    /\ cache_db = t
    /\ apps = AppRows(local[t].all_apps, now)
    /\ directories = DirRows(local[t].all_directories, now)
    /\ GetLastUpdateTime(metadata, "ok") = Some(now)

\* C26: a refresh reaches save_directories only by the commit of save_apps,
\* set_last_update_time only by the commit of save_directories, and the
\* replacement of the snapshots only by a stored last_update_time; when it
\* replaces a snapshot the cache file holds its rows and its time. A refresh of
\* which a step failed returns without passing by the replacement, every step
\* that changes a snapshot is a replacement by such a refresh, and every step
\* that changes last_update_time is taken by a refresh whose two saves are in
\* the cache file.
C26_PersistBeforePublish ==
    [][/\ \A t \in Refreshers :
          /\ Reaches(t, "save_directories") =>
                /\ pc[t] = "commit_apps"
                /\ apps' = AppRows(local[t].all_apps, now)
          /\ Reaches(t, "set_last_update_time") =>
                /\ pc[t] = "commit_directories"
                /\ apps' = AppRows(local[t].all_apps, now)
                /\ directories' = DirRows(local[t].all_directories, now)
          /\ Reaches(t, "publish_apps") =>
                /\ pc[t] = "set_last_update_time"
                /\ Persisted(t)'
          /\ pc[t] \in Publishing => Persisted(t)
          /\ Reaches(t, "return_err") =>
                /\ pc[t] \notin Publishing
                /\ state_apps' = state_apps
                /\ state_directories' = state_directories
          /\ Reaches(t, "return_ok") => pc[t] = "publish_directories"
       /\ (state_apps' # state_apps \/ state_directories' # state_directories) =>
             \E t \in Refreshers : pc[t] \in Publishing /\ pc'[t] # pc[t]
       /\ metadata' # metadata =>
             \E t \in Refreshers :
                 /\ pc[t] = "set_last_update_time"
                 /\ cache_db = t
                 /\ apps = AppRows(local[t].all_apps, now)
                 /\ directories = DirRows(local[t].all_directories, now)]_vars

\* a refresh saved its applications and failed to save its directories: the
\* apps table holds its scan, the snapshots and last_update_time are those of
\* the other refresh, which had replaced both with lists of two items
C26_Witness ==
    \E t \in Refreshers, u \in Refreshers :
        /\ pc[t] = "return_err"
        /\ apps = AppRows(local[t].all_apps, now)
        /\ directories # DirRows(local[t].all_directories, now)
        /\ state_apps # local[t].all_apps
        /\ pc[u] = "done" /\ local[u].result = "ok"
        /\ state_apps = local[u].all_apps /\ Len(state_apps) = 2
        /\ state_directories = local[u].all_directories

-----------------------------------------------------------------------------
(* From startup on: prime_cache in setup, then the refreshes of the tray
   menu, of the timer and of the front end *)

\* setup has called prime_cache and prime_cache has returned: the tray icon
\* and the timer thread are created after it, the event loop starts after setup
Primed == pc[Reader] = "done"

\* what the scans of prime_cache find: the bundles and folders of the first run
StartupApps == <<App1>>
StartupDirectories == <<Dir2>>

Prime(t) ==
    \/ \E u \in BOOLEAN : PrimeStart(t, u)
    \/ PrimeLock(t)
    \/ \E io \in ReadFaults : PrimeIsEmpty(t, io)
    \/ \E io \in ReadFaults : PrimeLoadApps(t, io)
    \/ \E io \in ReadFaults : PrimeLoadDirectories(t, io)
    \/ PrimePublishApps(t)
    \/ PrimePublishDirectories(t)
    \/ \E converter \in {"ok", "error"} : Scan(t, StartupApps, StartupDirectories, converter)
    \/ Persist(t)

NextStartup ==
    \/ Prime(Reader)
    \/ Primed /\ \E t \in Refreshers : Request(t)
    \/ Primed /\ \E t \in Refreshers : Refresh(t)

SpecStartup == InitPrime /\ [][NextStartup]_vars

\* the same items, order and repetition aside
SameSet(list, table_items) == Range(list) = Range(table_items)

\* no refresh has failed: none has returned an error, none is about to
NoRefreshFailed ==
    \A t \in Refreshers : local[t].result # "err" /\ pc[t] # "return_err"

\* C30: whenever the lock of the cache store is free, prime_cache has
\* returned Ok and no refresh has failed, the apps snapshot holds the items of
\* the apps table and the directories snapshot the items of the directories
\* table, whatever the order in which the refreshes ran.
C30_SnapshotsMirrorTables ==
    (cache_db = NoThread /\ Primed /\ local[Reader].result = "ok" /\ NoRefreshFailed)
        => /\ SameSet(state_apps, AppsOf(apps))
           /\ SameSet(state_directories, DirsOf(directories))

\* prime_cache loaded a filled cache, then two refreshes with different scans
\* overlapped and both returned Ok; snapshots and tables hold two items each
C30_Witness ==
    /\ cache_db = NoThread /\ Primed /\ local[Reader].result = "ok"
    /\ local[Reader].is_empty = FALSE
    /\ \A t \in Refreshers : pc[t] = "done" /\ local[t].result = "ok"
    /\ local["tray"].all_apps # local["timer"].all_apps
    /\ local["tray"].request < local["timer"].request
    /\ state_apps = local["tray"].all_apps
    /\ Len(state_apps) = 2 /\ Len(state_directories) = 2
    /\ Len(apps) = 2

-----------------------------------------------------------------------------
(* The scanner of application bundles (src-tauri/src/app_scanner.rs) *)

\* a directory *.app as the scanner meets it: file_stem().to_str() and
\* to_str() of its path (None when not UTF-8), the localized name that mdls,
\* InfoPlist.strings or Info.plist give (None when none does), the icon file
Bundle(stem, path, localized, icon) ==
    [stem |-> stem, path |-> path, localized |-> localized, icon |-> icon]

\* Safari.app without a localized name; T.app shown as "Mail", with an icon;
\* Mail.app whose localized name is its own; a bundle whose name is not
\* UTF-8; a bundle whose path is not
BundleSafari == Bundle(Some(NameSafari), Some("/Applications/1.app"), None, None)
BundleT == Bundle(Some(NameT), Some("/Applications/2.app"), Some(NameMail), Some("icon.icns"))
BundleMail == Bundle(Some(NameMail), Some("/Applications/3.app"), Some(NameMail), None)
BundleNoStem == Bundle(None, Some("/Applications/4.app"), Some(NameMa), None)
BundleNoPath == Bundle(Some(NameMa), None, None, None)
Bundles == {BundleSafari, BundleT, BundleMail, BundleNoStem, BundleNoPath}

\* what /Applications holds at the time of a scan
Disks ==
    {<<BundleSafari>>, <<BundleT, BundleMail>>, <<BundleNoStem, BundleSafari, BundleT>>,
     <<BundleNoPath, BundleMail>>}

\* the file system name kept beside every display name, equal or not
parse_app_bundle_keeping_stem(b) ==
    IF b.stem = None \/ b.path = None THEN None
    ELSE LET original_name == b.stem[1]
             name == IF b.localized = None THEN original_name ELSE b.localized[1]
         IN Some(AppItem(name, b.path[1], b.icon, Some(original_name)))

\* AppScanner::parse_app_bundle
parse_app_bundle(b) ==
    IF b.stem = None \/ b.path = None THEN None
    ELSE LET original_name == b.stem[1]
             name == IF b.localized = None THEN original_name ELSE b.localized[1]
         IN Some(AppItem(name, b.path[1], b.icon,
                         IF original_name = name THEN None ELSE Some(original_name)))

\* AppScanner::scan_directory: the items of the bundles that parse, in order
RECURSIVE scan_directory(_)
scan_directory(disk) ==
    IF disk = <<>> THEN <<>>
    ELSE LET item == parse_app_bundle(disk[1])
         IN (IF item = None THEN <<>> ELSE <<item[1]>>) \o scan_directory(Tail(disk))

\* the loop over all_apps: the icon converted to a PNG, or dropped
ConvertIcons(found, io) ==
    [i \in 1..Len(found) |->
        [found[i] EXCEPT !.icon_path =
            IF @ = None THEN None
            ELSE IF io = "ok" THEN Some("icon.png") ELSE None]]

NextScan ==
    \/ \E t \in Refreshers : Request(t)
    \/ \E t \in Refreshers, disk \in Disks, io \in {"ok", "convert"},
          converter \in {"ok", "error"} :
          Scan(t, ConvertIcons(scan_directory(disk), io), <<Dir2>>, converter)
    \/ \E t \in Refreshers : Persist(t)

SpecScan == InitRefresh /\ [][NextScan]_vars

\* the bundle an item was made from: the one at its path
BundleAt(path) == CHOOSE b \in Bundles : b.path = Some(path)

\* every application a refresh has scanned, published or saved
ScannedItems ==
    UNION {Range(local[t].all_apps) : t \in Refreshers}
        \cup Range(state_apps) \cup Range(AppsOf(apps))

\* C28: every item the scanner has made, in the vectors of a refresh, in the
\* snapshot and in the apps table, has the display name of its bundle (the
\* localized name, or the file system name when there is none), has
\* original_name None exactly when the file system name is that display name
\* and Some(file system name) otherwise, and never Some(name).
C28_OriginalNameOnlyWhenDifferent ==
    \A item \in ScannedItems :
        LET b == BundleAt(item.path)
        IN /\ b.stem # None
           /\ item.name = (IF b.localized = None THEN b.stem[1] ELSE b.localized[1])
           /\ item.original_name = None <=> b.stem[1] = item.name
           /\ item.original_name # None => item.original_name = Some(b.stem[1])
           /\ item.original_name # Some(item.name)

\* a refresh of T.app (shown as "Mail") and Mail.app (shown as "Mail") has
\* returned Ok: snapshot and table hold "Mail" with original_name "T" and
\* "Mail" with none
C28_Witness ==
    /\ pc[Writer] = "done" /\ local[Writer].result = "ok"
    /\ Len(state_apps) = 2
    /\ state_apps[1].name = NameMail /\ state_apps[1].original_name = Some(NameT)
    /\ state_apps[2].name = NameMail /\ state_apps[2].original_name = None
    /\ Range(AppsOf(apps)) = Range(state_apps)

-----------------------------------------------------------------------------
(* The decision of prime_cache at startup *)

LoadPath == {"prime_lock_again", "prime_load_apps", "prime_load_directories",
             "prime_publish_apps", "prime_publish_directories"}

\* C31: prime_cache goes on to the scan of a full refresh exactly when
\* is_empty failed, or the cache is empty, or update_on_startup is set. On the
\* other path it scans nothing and writes nothing to the store, and when it
\* returns Ok the two snapshots are what load_apps and load_directories return
\* for the tables.
C31_PrimeRefreshesOrLoads ==
    [][/\ pc[Reader] = "prime_is_empty" /\ pc'[Reader] # "prime_is_empty" =>
             /\ pc'[Reader] \in {"scan", "prime_lock_again"}
             /\ pc'[Reader] = "scan" <=>
                   \/ ~seen'.ok
                   \/ IsEmptyOf(apps, directories)
                   \/ local[Reader].update_on_startup
       /\ pc[Reader] \in LoadPath =>
             /\ apps' = apps /\ directories' = directories /\ metadata' = metadata
             /\ local'[Reader].all_apps = <<>> /\ local'[Reader].all_directories = <<>>
             /\ requests' = requests
             /\ pc'[Reader] \in LoadPath \cup {"done"}
       /\ pc[Reader] = "prime_publish_directories" /\ pc'[Reader] = "done" =>
             /\ local'[Reader].result = "ok"
             /\ \E r \in LoadApps(apps, "ok") : state_apps' = r.value
             /\ \E r \in LoadDirectories(directories, "ok") : state_directories' = r.value]_vars

\* prime_cache found a filled cache with update_on_startup off and returned
\* Ok with the snapshots loaded: one application, one directory, no refresh
\* requested
C31_Witness ==
    /\ pc[Reader] = "done" /\ local[Reader].result = "ok"
    /\ ~local[Reader].update_on_startup /\ ~local[Reader].is_empty
    /\ requests = 0
    /\ seen.op = "load_directories" /\ seen.ok
    /\ Len(state_apps) = 1 /\ Len(state_directories) = 1
    /\ state_apps = AppsOf(apps)

-----------------------------------------------------------------------------
(* The auto-update timer thread of setup (src-tauri/src/lib.rs) *)

Timer == "timer"

\* the intervals the user can set, in hours
TimerIntervals == 1..(MaxHours - 1)

\* .unwrap_or(default) on a Result
UnwrapOr(r, default) == IF r.ok THEN r.value ELSE default

\* CacheDB::needs_update as a Result: get_last_update_time()? never fails
NeedsUpdateResult(meta, io, interval_hours, clock) ==
    [ok |-> TRUE, value |-> NeedsUpdateOf(meta, io, interval_hours, clock)]

\* thread::sleep(Duration::from_secs(3600)), at the top of the loop
TimerSleep(t) ==
    /\ pc[t] \in {"idle", "done"}
    /\ now + SecondsPerHour <= StartTime + MaxHours * SecondsPerHour
    /\ now' = now + SecondsPerHour
    /\ Goto(t, "timer_settings")
    /\ UNCHANGED <<cache_db, local, tx, state_apps, state_directories, seen, requests>>
    /\ UNCHANGED <<apps, directories, metadata, ret, saved, schema>>
    /\ UNCHANGED appVars

\* let settings = state.settings_manager.get_settings();
\* if settings.cache_update.auto_update_enabled { let interval_hours = .. }
TimerSettings(t) ==
    /\ pc[t] = "timer_settings"
    /\ CanLockSnapshot("settings")
    /\ local' = [local EXCEPT
                    ![t].auto_update_enabled = settings.cache_update.auto_update_enabled,
                    ![t].interval_hours = settings.cache_update.auto_update_interval_hours]
    /\ Goto(t, IF settings.cache_update.auto_update_enabled THEN "timer_lock" ELSE "idle")
    /\ UNCHANGED <<cache_db, tx, state_apps, state_directories, seen, requests>>
    /\ UNCHANGED storeVars
    /\ UNCHANGED appVars

\* let cache_db = state.cache_db.lock().unwrap();
TimerLock(t) ==
    /\ pc[t] = "timer_lock"
    /\ CanLock(t)
    /\ cache_db' = t
    /\ Goto(t, "timer_needs_update")
    /\ UNCHANGED <<local, tx, state_apps, state_directories, seen, requests>>
    /\ UNCHANGED storeVars
    /\ UNCHANGED appVars

\* cache_db.needs_update(interval_hours).unwrap_or(false); drop(cache_db);
\* if needs_update { let _ = perform_cache_refresh(&state); }
TimerNeedsUpdate(t, io) ==
    /\ pc[t] = "timer_needs_update"
    /\ LET r == NeedsUpdateResult(metadata, io, local[t].interval_hours, now)
           needed == UnwrapOr(r, FALSE)
       IN /\ local' = [local EXCEPT ![t].needs_update = needed,
                                    ![t].request = IF needed THEN requests + 1 ELSE @]
          /\ requests' = IF needed THEN requests + 1 ELSE requests
          /\ Goto(t, IF needed THEN "scan" ELSE "idle")
          /\ seen' = [op |-> "needs_update", ok |-> io = "ok", value |-> None,
                      answer |-> needed]
    /\ cache_db' = IF cache_db = t THEN NoThread ELSE cache_db
    /\ UNCHANGED <<tx, state_apps, state_directories>>
    /\ UNCHANGED storeVars
    /\ UNCHANGED appVars

\* the user saves other settings of the automatic update
SaveCacheUpdate(enabled, hours) ==
    /\ settings' = [settings EXCEPT !.cache_update.auto_update_enabled = enabled,
                                    !.cache_update.auto_update_interval_hours = hours]
    /\ UNCHANGED <<state_commands, snapshot_lock, search_engine>>
    /\ UNCHANGED storeVars
    /\ UNCHANGED threadVars

\* setup has primed the cache and spawned the timer: auto_update_enabled was
\* true in the settings it read
InitTimer ==
    /\ \E filled \in BOOLEAN :
          /\ CacheFile(filled)
          /\ state_apps = IF filled THEN <<App1>> ELSE <<>>
          /\ state_directories = IF filled THEN <<Dir2>> ELSE <<>>
          /\ local = [t \in Threads |->
                        IF t = Reader
                        THEN [NoLocals EXCEPT !.result = IF filled THEN "ok" ELSE "err"]
                        ELSE NoLocals]
    /\ pc = [t \in Threads |-> IF t = Reader THEN "done" ELSE "idle"]
    /\ cache_db = NoThread
    /\ tx = NoTx
    /\ seen = NothingSeen
    /\ requests = 0
    /\ state_commands = <<>>
    /\ snapshot_lock = NoLocks
    /\ search_engine = NoScores
    /\ \E hours \in TimerIntervals :
          settings = [NoSettings EXCEPT !.cache_update.auto_update_interval_hours = hours]

NextTimer ==
    \/ TimerSleep(Timer)
    \/ TimerSettings(Timer)
    \/ TimerLock(Timer)
    \/ \E io \in ReadFaults : TimerNeedsUpdate(Timer, io)
    \/ \E a \in AppScans, converter \in {"ok", "error"} :
          Scan(Timer, a, StartupDirectories, converter)
    \/ Persist(Timer)
    \/ \E enabled \in BOOLEAN, hours \in TimerIntervals : SaveCacheUpdate(enabled, hours)

SpecTimer == InitTimer /\ [][NextTimer]_vars

\* the last_update_time the metadata table holds
RecordedTime == GetLastUpdateTime(metadata, "ok")

\* the timer starts a refresh
TimerStarts == Reaches(Timer, "scan")

\* C32: the timer starts a refresh only from the needs_update of a check at
\* which it read auto_update_enabled true and needs_update returned true, and,
\* when a last_update_time is recorded, only if at least interval_hours * 3600
\* seconds have passed since.
C32_TimerWaitsForInterval ==
    [][TimerStarts =>
          /\ pc[Timer] = "timer_needs_update"
          /\ local[Timer].auto_update_enabled
          /\ seen'.answer
          /\ RecordedTime # None =>
                now - RecordedTime[1] >= local[Timer].interval_hours * SecondsPerHour]_vars

\* the same while the query of the metadata table succeeds
C32_TimerWaitsForIntervalQueryOk ==
    [][TimerStarts /\ seen'.ok =>
          /\ pc[Timer] = "timer_needs_update"
          /\ local[Timer].auto_update_enabled
          /\ seen'.answer
          /\ RecordedTime # None =>
                now - RecordedTime[1] >= local[Timer].interval_hours * SecondsPerHour]_vars

\* a check with the interval not yet passed and the query succeeding starts
\* no refresh, and a check with auto_update_enabled false asks nothing
C32_TimerSkips ==
    [][/\ pc[Timer] = "timer_needs_update" /\ pc'[Timer] # pc[Timer] /\ seen'.ok
          /\ RecordedTime # None
          /\ now - RecordedTime[1] < local[Timer].interval_hours * SecondsPerHour
             => pc'[Timer] = "idle"
       /\ pc[Timer] = "timer_settings" /\ ~settings.cache_update.auto_update_enabled
             => pc'[Timer] \in {"timer_settings", "idle"}]_vars

-----------------------------------------------------------------------------
(* SettingsManager called by several threads (src-tauri/src/settings.rs):
   every method statement by statement *)

\* a call: the method, its argument, and the label the caller goes on to
SettingsOp(op, arg, then) == [op |-> op, arg |-> arg, then |-> then]

\* the methods that change the settings behind the guard they hold
GuardedOps == {"dismiss_update", "save_update_cache"}

\* what a method does to the settings it has in hand
ApplyCall(call, s) ==
    CASE call.op = "add_directory" ->
            [s EXCEPT !.registered_directories = AddDirectoryTo(@, call.arg)]
      [] call.op = "remove_directory" ->
            [s EXCEPT !.registered_directories = RemoveDirectoryFrom(@, call.arg)]
      [] call.op = "add_command" ->
            [s EXCEPT !.custom_commands = AddCommandTo(@, call.arg)]
      [] call.op = "remove_command" ->
            [s EXCEPT !.custom_commands = RemoveCommandFrom(@, call.arg)]
      [] call.op = "save_main_window_position" ->
            [s EXCEPT !.main_window_position = Some(call.arg)]
      [] call.op = "save_settings" -> call.arg
      [] call.op = "dismiss_update" ->
            [s EXCEPT !.update_cache.dismissed_version = Some(call.arg)]
      [] call.op = "save_update_cache" ->
            [s EXCEPT !.update_cache =
                [last_checked |-> call.arg.last_checked,
                 latest_version |-> call.arg.latest_version,
                 html_url |-> call.arg.html_url,
                 dismissed_version |-> @.dismissed_version]]

\* a thread calls a method of SettingsManager
SettingsRequest(t, call) ==
    /\ pc[t] = "idle"
    /\ local' = [local EXCEPT ![t].call = Some(call),
                              ![t].copy = IF call.op = "save_settings"
                                          THEN Some(call.arg) ELSE None]
    /\ Goto(t, CASE call.op \in GuardedOps -> "settings_guard"
                 [] call.op = "save_settings" -> "settings_write"
                 [] OTHER -> "settings_get")
    /\ UNCHANGED <<cache_db, tx, state_apps, state_directories, seen, requests>>
    /\ UNCHANGED storeVars
    /\ UNCHANGED appVars

\* let mut settings = self.get_settings(); and the change, on the clone
SettingsGet(t) ==
    /\ pc[t] = "settings_get"
    /\ CanLockSnapshot("settings")
    /\ local' = [local EXCEPT ![t].copy = Some(ApplyCall(local[t].call[1], settings))]
    /\ Goto(t, "settings_write")
    /\ UNCHANGED <<cache_db, tx, state_apps, state_directories, seen, requests>>
    /\ UNCHANGED storeVars
    /\ UNCHANGED appVars

\* save_settings: create_dir_all, to_string_pretty, fs::write, each with `?`
SettingsWrite(t, io) ==
    /\ pc[t] = "settings_write"
    /\ IF io = "ok"
       THEN /\ Goto(t, "settings_replace")
            /\ UNCHANGED local
       ELSE /\ Goto(t, "done")
            /\ local' = [local EXCEPT ![t].result = "err"]
    /\ UNCHANGED <<cache_db, tx, state_apps, state_directories, seen, requests>>
    /\ UNCHANGED storeVars
    /\ UNCHANGED appVars

\* *self.settings.lock().unwrap() = settings; Ok(())
SettingsReplace(t) ==
    /\ pc[t] = "settings_replace"
    /\ CanLockSnapshot("settings")
    /\ settings' = local[t].copy[1]
    /\ local' = [local EXCEPT ![t].result = "ok"]
    /\ Goto(t, local[t].call[1].then)
    /\ UNCHANGED <<cache_db, tx, state_apps, state_directories, seen, requests>>
    /\ UNCHANGED storeVars
    /\ UNCHANGED <<state_commands, snapshot_lock, search_engine>>

\* let mut settings_guard = self.settings.lock().unwrap(); and the change,
\* in place
SettingsGuard(t) ==
    /\ pc[t] = "settings_guard"
    /\ CanLockSnapshot("settings")
    /\ snapshot_lock' = [snapshot_lock EXCEPT !["settings"] = t]
    /\ settings' = ApplyCall(local[t].call[1], settings)
    /\ Goto(t, "settings_guard_write")
    /\ UNCHANGED <<cache_db, local, tx, state_apps, state_directories, seen, requests>>
    /\ UNCHANGED storeVars
    /\ UNCHANGED <<state_commands, search_engine>>

\* create_dir_all, to_string_pretty, fs::write with the guard held; the
\* guard is dropped at the return, Ok or Err
SettingsGuardWrite(t, io) ==
    /\ pc[t] = "settings_guard_write"
    /\ snapshot_lock' = [snapshot_lock EXCEPT !["settings"] = NoThread]
    /\ local' = [local EXCEPT ![t].result = IF io = "ok" THEN "ok" ELSE "err"]
    /\ Goto(t, "done")
    /\ UNCHANGED <<cache_db, tx, state_apps, state_directories, seen, requests>>
    /\ UNCHANGED storeVars
    /\ UNCHANGED <<state_commands, search_engine, settings>>

\* the statements of a method of SettingsManager, for the thread t
SettingsStep(t) ==
    \/ SettingsGet(t)
    \/ \E io \in SettingsFaults : SettingsWrite(t, io)
    \/ SettingsReplace(t)
    \/ SettingsGuard(t)
    \/ \E io \in SettingsFaults : SettingsGuardWrite(t, io)

\* two commands of the front end that run at once
Callers == {"ui2", Editor}

\* the settings the settings window was opened with, automatic update turned
\* off in it
SettingsOfWindow(s) == [s EXCEPT !.cache_update.auto_update_enabled = FALSE]

\* the settings file at startup: one registered directory, one custom command
StoredSettings ==
    [NoSettings EXCEPT !.registered_directories = <<RegisteredDirectory("/d/2", FALSE)>>,
                       !.custom_commands = <<LiveCommand>>]

\* one call of each method
RaceCalls ==
    {SettingsOp("add_directory", RegisteredDirectory("/d/1", TRUE), "done"),
     SettingsOp("remove_directory", "/d/2", "done"),
     SettingsOp("add_command", CustomCommand(NameMail, TextLs, None), "done"),
     SettingsOp("remove_command", NameMa, "done"),
     SettingsOp("save_main_window_position", [x |-> 1, y |-> 2], "done"),
     SettingsOp("save_settings", SettingsOfWindow(StoredSettings), "done"),
     SettingsOp("dismiss_update", "0.2.0", "done"),
     SettingsOp("save_update_cache",
                [last_checked |-> Some(StartTime), latest_version |-> Some("0.2.0"),
                 html_url |-> Some("https://releases/0.2.0")], "done")}

InitRace ==
    /\ CacheFile(FALSE)
    /\ pc = [t \in Threads |-> IF t \in Callers THEN "idle" ELSE "done"]
    /\ cache_db = NoThread
    /\ local = [t \in Threads |-> NoLocals]
    /\ tx = NoTx
    /\ state_apps = <<>>
    /\ state_directories = <<>>
    /\ seen = NothingSeen
    /\ requests = 0
    /\ state_commands = <<CommandItemOf(LiveCommand)>>
    /\ snapshot_lock = NoLocks
    /\ search_engine = NoScores
    /\ settings = StoredSettings

NextRace ==
    \E t \in Callers :
        \/ \E call \in RaceCalls : SettingsRequest(t, call)
        \/ SettingsStep(t)

SpecRace == InitRace /\ [][NextRace]_vars

\* the part of the settings a method means to change
Touches(call) ==
    CASE call.op \in {"add_directory", "remove_directory"} -> {"registered_directories"}
      [] call.op \in {"add_command", "remove_command"} -> {"custom_commands"}
      [] call.op = "save_main_window_position" -> {"main_window_position"}
      [] call.op = "dismiss_update" -> {"dismissed_version"}
      [] call.op = "save_update_cache" -> {"last_checked", "latest_version", "html_url"}
      [] call.op = "save_settings" ->
            {"registered_directories", "custom_commands", "main_window_position",
             "dismissed_version", "last_checked", "latest_version", "html_url",
             "cache_update"}

\* the settings show what the call was made for
Effect(call, s) ==
    CASE call.op = "add_directory" -> call.arg \in Range(s.registered_directories)
      [] call.op = "remove_directory" ->
            \A i \in 1..Len(s.registered_directories) :
                s.registered_directories[i].path # call.arg
      [] call.op = "add_command" -> call.arg \in Range(s.custom_commands)
      [] call.op = "remove_command" ->
            \A i \in 1..Len(s.custom_commands) : s.custom_commands[i].alias # call.arg
      [] call.op = "save_main_window_position" -> s.main_window_position = Some(call.arg)
      [] call.op = "save_settings" -> s = call.arg
      [] call.op = "dismiss_update" -> s.update_cache.dismissed_version = Some(call.arg)
      [] call.op = "save_update_cache" ->
            /\ s.update_cache.last_checked = call.arg.last_checked
            /\ s.update_cache.latest_version = call.arg.latest_version
            /\ s.update_cache.html_url = call.arg.html_url

\* the call of t has returned Ok and no other call was made for the same part
ReturnedOkAlone(t) ==
    /\ local[t].call # None /\ local[t].result = "ok"
    /\ \A u \in Callers \ {t} :
          local[u].call # None =>
             Touches(local[u].call[1]) \cap Touches(local[t].call[1]) = {}

\* C36: once the calls have returned, the settings in memory show the effect
\* of every call that returned Ok, unless another call was made to change the
\* same part of the settings; in particular the dismissed_version of a
\* dismiss_update that returned Ok.
C36_NoLostUpdate ==
    (\A t \in Callers : pc[t] = "done")
        => \A t \in Callers : ReturnedOkAlone(t) => Effect(local[t].call[1], settings)

\* the same for dismiss_update beside save_update_cache, the two methods that
\* change the settings behind the guard
C36_GuardedCallsKeepEffect ==
    (\A t \in Callers : pc[t] = "done" /\ local[t].call # None
                        /\ local[t].call[1].op \in GuardedOps)
        => \A t \in Callers : ReturnedOkAlone(t) => Effect(local[t].call[1], settings)

-----------------------------------------------------------------------------
(* Every Mutex of AppState and SettingsManager, with every kind of caller *)

\* the Mutex the next statement of the thread t locks, "none" when it locks none
Requested(t) ==
    CASE pc[t] \in {"lock", "prime_lock", "prime_lock_again", "timer_lock"} -> "cache_db"
      [] pc[t] \in {"publish_apps", "prime_publish_apps"} -> "apps"
      [] pc[t] \in {"publish_directories", "prime_publish_directories"} -> "directories"
      [] pc[t] = "publish_commands" -> "commands"
      [] pc[t] = "search_lock" -> local[t].kind
      [] pc[t] \in {"search_settings", "refresh_commands", "timer_settings", "settings_get",
                    "settings_replace", "settings_guard"} -> "settings"
      [] OTHER -> "none"

Holder(m) == IF m = "cache_db" THEN cache_db ELSE snapshot_lock[m]

Held(t) == {m \in Mutexes \cup {"cache_db"} : Holder(m) = t}

\* the thread t is blocked in lock()
Waiting(t) == Requested(t) # "none" /\ Holder(Requested(t)) # NoThread

\* the place of each Mutex in the order in which they are taken
Rank(m) ==
    CASE m = "cache_db" -> 1
      [] m = "apps" -> 2
      [] m = "directories" -> 3
      [] m = "commands" -> 4
      [] m = "settings" -> 5

\* one step of the thread t, whatever it is running
StepOf(t) ==
    \/ PrimeStart(t, settings.cache_update.update_on_startup)
    \/ PrimeLock(t)
    \/ PrimeIsEmpty(t, "ok")
    \/ \E io \in ReadFaults : PrimeLoadApps(t, io)
    \/ \E io \in ReadFaults : PrimeLoadDirectories(t, io)
    \/ PrimePublishApps(t)
    \/ PrimePublishDirectories(t)
    \/ Request(t)
    \/ \E converter \in {"ok", "error"} : Scan(t, StartupApps, StartupDirectories, converter)
    \/ Persist(t)
    \/ SearchCall(t, "apps", <<>>)
    \/ Search(t)
    \/ SettingsRequest(t, SettingsOp("dismiss_update", "0.2.0", "done"))
    \/ SettingsRequest(t, SettingsOp("add_command", CustomCommand(NameMail, TextLs, None),
                                     "refresh_commands"))
    \/ SettingsStep(t)
    \/ RefreshCommands(t)
    \/ PublishCommands(t)

\* what each thread runs: prime_cache with is_empty answering, a refresh,
\* search_apps (the one search command that asks for a second Mutex), one of
\* dismiss_update and add_command. The Mutexes a search takes do not depend on
\* its query, which is empty here.
Runs(t) ==
    CASE t = Reader -> {"prime_lock"}
      [] t = Timer -> {"scan"}
      [] t = Searcher -> {"search_lock"}
      [] t = Editor -> {"settings_guard", "settings_get"}
      [] OTHER -> {}

LockUsers == {t \in Threads : Runs(t) # {}}

InitLocks ==
    /\ CacheFile(TRUE)
    /\ state_apps = <<App1>>
    /\ state_directories = <<Dir2>>
    /\ local = [t \in Threads |-> NoLocals]
    /\ pc = [t \in Threads |-> IF Runs(t) = {} THEN "done" ELSE "idle"]
    /\ cache_db = NoThread
    /\ tx = NoTx
    /\ seen = NothingSeen
    /\ requests = 0
    /\ state_commands = <<CommandItemOf(LiveCommand)>>
    /\ snapshot_lock = NoLocks
    /\ search_engine \in {e \in LiveEngines : \A p \in DOMAIN e, k \in LiveKeys : e[p][k] = 1}
    /\ settings = [StoredSettings EXCEPT !.cache_update.update_on_startup = FALSE]

\* a thread leaves "idle" only into what it runs
NextLocks ==
    \E t \in Threads : StepOf(t) /\ (pc[t] = "idle" => pc'[t] \in Runs(t))

SpecLocks == InitLocks /\ [][NextLocks]_vars

\* the scheduler runs some thread that can take a step
FairLocks == SpecLocks /\ WF_vars(NextLocks)

LockOrder ==
    \A t \in Threads :
        /\ Requested(t) # "none" =>
              \A m \in Held(t) : Rank(m) < Rank(Requested(t))
        /\ Requested(t) = "cache_db" => Held(t) = {}
        /\ Requested(t) = "apps" => Held(t) \subseteq {"cache_db"}
        /\ Requested(t) = "directories" => Held(t) \subseteq {"cache_db"}

\* the operation the thread t runs is over and has let go of every Mutex
Finished(t) == pc[t] = "done" /\ Held(t) = {}

\* C33: a thread asks for cache_db with no Mutex in hand, for apps and for
\* directories with nothing but cache_db in hand, and for any Mutex only with
\* Mutexes in hand that come before it in the order cache_db, apps,
\* directories, commands, settings; and every thread gets every Mutex it asks
\* for in the end: prime_cache, the refresh, the search and the settings
\* command all return.
C33_NoDeadlock ==
    /\ []LockOrder
    /\ <>(\A t \in LockUsers : Finished(t))

\* the refresh, holding cache_db, waits for apps, which the search holds
\* while it waits for the settings, which dismiss_update holds
C33_Witness ==
    /\ Waiting(Timer) /\ Requested(Timer) = "apps" /\ Held(Timer) = {"cache_db"}
    /\ Waiting(Searcher) /\ Requested(Searcher) = "settings" /\ Held(Searcher) = {"apps"}
    /\ Held(Editor) = {"settings"}
    /\ Waiting(Reader) /\ Requested(Reader) = "cache_db"

-----------------------------------------------------------------------------
(* What each operation of the store leaves alone *)

Reads == {"load_apps", "load_directories", "is_empty", "get_last_update_time",
          "needs_update"}

\* what needs_update would answer for every interval, the query succeeding
StaleFor(meta, clock) ==
    [h \in IntervalHours |-> NeedsUpdateOf(meta, "ok", h, clock)]

\* C34: save_apps leaves the directories table and the metadata alone,
\* save_directories the apps table and the metadata, set_last_update_time both
\* item tables; load_apps, load_directories, is_empty, get_last_update_time and
\* needs_update change no table; and after a save needs_update answers what it
\* answered before, for every interval.
C34_FrameConditions ==
    [][/\ ret'.op = "save_apps" =>
            /\ directories' = directories /\ metadata' = metadata
            /\ GetLastUpdateTime(metadata', "ok") = GetLastUpdateTime(metadata, "ok")
       /\ ret'.op = "save_directories" =>
            /\ apps' = apps /\ metadata' = metadata
            /\ GetLastUpdateTime(metadata', "ok") = GetLastUpdateTime(metadata, "ok")
       /\ ret'.op = "set_last_update_time" => apps' = apps /\ directories' = directories
       /\ ret'.op \in Reads =>
            <<apps', directories', metadata', schema'>> = <<apps, directories, metadata, schema>>
       /\ ret'.op \in {"save_apps", "save_directories"} =>
            StaleFor(metadata', now') = StaleFor(metadata, now)]_vars

\* both tables were saved with no last_update_time recorded: needs_update
\* still answers true for every interval
C34_Witness ==
    /\ ret.op = "save_apps" /\ ret.ok
    /\ Len(apps) > 0 /\ Len(directories) > 0
    /\ saved.directories # NoSave
    /\ GetLastUpdateTime(metadata, "ok") = None
    /\ \A h \in IntervalHours : StaleFor(metadata, now)[h]

-----------------------------------------------------------------------------
(* Items with equal scores *)

\* where the item stands in the collection the search was given
PositionIn(items, item) == CHOOSE k \in 1..Len(items) : items[k] = item

\* C35: of two returned items with equal scores the one that stands earlier in
\* the collection stands earlier in the result, and a matching item left out
\* by the cut at 20 stands, in the collection, after every returned item of
\* the same score.
C35_TiesKeepInputOrder ==
    ret.op \in SearchOps /\ ret.value.query # <<>> =>
        LET results == ret.value.results
        IN /\ \A i, j \in 1..Len(results) :
                  i < j /\ ItemScore(results[i]) = ItemScore(results[j])
                     => PositionIn(Searched, results[i]) < PositionIn(Searched, results[j])
           /\ \A k \in Matching :
                  Searched[k] \notin Range(results) =>
                      \A i \in 1..Len(results) :
                          ItemScore(Searched[k]) = ItemScore(results[i])
                             => PositionIn(Searched, results[i]) < k

\* more than 20 items match, the 20th returned has the score of one left
\* out, and the result holds equal scores and different scores
C35_Witness ==
    /\ ret.op = "search_apps"
    /\ ret.value.query # <<>>
    /\ Cardinality(Matching) > 20
    /\ Len(ret.value.results) = 20
    /\ \E k \in Matching :
          /\ state_apps[k] \notin Range(ret.value.results)
          /\ ItemScore(state_apps[k]) = ItemScore(ret.value.results[20])
    /\ ItemScore(ret.value.results[1]) > ItemScore(ret.value.results[20])
    /\ ItemScore(ret.value.results[19]) = ItemScore(ret.value.results[20])

-----------------------------------------------------------------------------
(* The search_apps command with excluded applications and many matches *)

\* the query "app": every look-alike application matches it
QueryApp == <<97, 112, 112>>

\* the applications the user has excluded: none, the first, the first two,
\* one far down the list
ExcludedSets == {{}, {PathOf(0)}, {PathOf(0), PathOf(1)}, {PathOf(25)}}

\* two matchers: one scores every name alike, one prefers "App0"
BulkEngines(items) ==
    {[p \in {normalize_for_search(QueryApp)} |-> [k \in AppKeys(items) |-> 1]],
     [p \in {normalize_for_search(QueryApp)} |->
        [k \in AppKeys(items) |->
            IF k = normalize_for_search(BulkName(0)) THEN 2 ELSE 1]]}

InitExcluded ==
    /\ CacheFile(TRUE)
    /\ \E n \in BulkCounts \ {0} :
          /\ state_apps = BulkApps(0, n)
          /\ search_engine \in BulkEngines(state_apps)
    /\ state_directories = <<>>
    /\ state_commands = <<>>
    /\ settings \in {[NoSettings EXCEPT !.excluded_apps = e] : e \in ExcludedSets}
    /\ local = [t \in Threads |-> NoLocals]
    /\ pc = [t \in Threads |-> IF t = Searcher THEN "idle" ELSE "done"]
    /\ cache_db = NoThread
    /\ tx = NoTx
    /\ seen = NothingSeen
    /\ requests = 0
    /\ snapshot_lock = NoLocks

NextExcluded ==
    \/ SearchCall(Searcher, "apps", QueryApp)
    \/ Search(Searcher)

SpecExcluded == InitExcluded /\ [][NextExcluded]_vars

\* the positions of the applications that match "app" and are not excluded
Allowed ==
    {i \in 1..Len(state_apps) :
        /\ MatchesQuery("search_apps", state_apps[i], QueryApp)
        /\ state_apps[i].path \notin settings.excluded_apps}

\* the score the engine gives the application
EngineScore(app) ==
    ScoreOfApp(search_engine[normalize_for_search(QueryApp)], app,
               normalize_for_search(QueryApp))[1]

\* what search_apps has returned
Answer == local[Searcher].results[1]

AnsweredApps == Returned(Searcher) /\ local[Searcher].kind = "apps"

\* C37: search_apps returns no application whose path is excluded, and it
\* returns the 20 best-scoring matches among the applications that are not
\* excluded: min(20, their number) items, none scoring less than one left out.
C37_TwentyBestOfAllowed ==
    AnsweredApps =>
        /\ \A i \in 1..Len(Answer) : Answer[i].path \notin settings.excluded_apps
        /\ Len(Answer) = Min(TopN, Cardinality(Allowed))
        /\ \A k \in Allowed :
              state_apps[k] \notin Range(Answer) =>
                  \A i \in 1..Len(Answer) :
                      EngineScore(state_apps[k]) <= EngineScore(Answer[i])

\* no excluded application is returned
C37_NeverReturnsExcluded ==
    AnsweredApps =>
        \A i \in 1..Len(Answer) : Answer[i].path \notin settings.excluded_apps

\* the command returns what is left of the engine's 20 best once the excluded
\* ones are taken out of them
C37_FilterAfterCut ==
    AnsweredApps =>
        Answer = SelectSeq(EngineSearch("apps", state_apps, QueryApp),
                           LAMBDA app : app.path \notin settings.excluded_apps)

\* 30 applications match, one of the engine's 20 best is excluded, and 19 come back
C37_Cases ==
    /\ AnsweredApps
    /\ Cardinality(Allowed) = 29
    /\ Len(Answer) = 19

-----------------------------------------------------------------------------
(* The update check: the cached answer, the fetch, the dismissed version *)

Checker == "ui2"

\* const CACHE_DURATION_HOURS: i64 = 12;
CacheDurationHours == 12

\* the pieces of a string between its '.' characters: str::split('.')
RECURSIVE Split(_)
Split(s) ==
    LET dots == {i \in 1..Len(s) : s[i] = 46}
    IN IF dots = {} THEN <<s>>
       ELSE LET d == CHOOSE i \in dots : \A j \in dots : i <= j
            IN <<SubSeq(s, 1, d - 1)>> \o Split(SubSeq(s, d + 1, Len(s)))

\* str::parse::<u32>: no minus sign
parse_u32(s) == IF s # <<>> /\ s[1] = 45 THEN None ELSE parse(s)

\* s.split('.').filter_map(|s| s.parse().ok()).collect()
VersionParts(s) ==
    LET pieces == Split(s)
        parsed == [i \in 1..Len(pieces) |-> parse_u32(pieces[i])]
        kept == SelectSeq(parsed, LAMBDA r : r # None)
    IN [i \in 1..Len(kept) |-> kept[i][1]]

\* parts.get(i).unwrap_or(&0)
PartOr0(parts, i) == IF i <= Len(parts) THEN parts[i] ELSE 0

\* for i in 0..3: the first part that differs decides; equal parts give false
compare_versions(current, latest) ==
    LET c == VersionParts(current)
        l == VersionParts(latest)
        differing == {i \in 1..3 : PartOr0(l, i) # PartOr0(c, i)}
    IN /\ differing # {}
       /\ LET i == CHOOSE x \in differing : \A y \in differing : x <= y
          IN PartOr0(l, i) > PartOr0(c, i)

\* release.tag_name.trim_start_matches('v')
RECURSIVE TrimStartV(_)
TrimStartV(s) == IF s # <<>> /\ s[1] = 118 THEN TrimStartV(Tail(s)) ELSE s

\* "0.1.0", "0.2.0", "0.2"
Version010 == <<48, 46, 49, 46, 48>>
Version020 == <<48, 46, 50, 46, 48>>
Version02 == <<48, 46, 50>>

\* app.package_info().version
AppVersion == Version010

\* what GitHub answers: no answer, a prerelease, a release from another
\* repository, the releases "v0.2.0", "0.1.0" and "v0.2"
Release(tag, prerelease, url_ok) ==
    [kind |-> "release", tag_name |-> tag, prerelease |-> prerelease, url_ok |-> url_ok]

Responses ==
    {[kind |-> "error", tag_name |-> <<>>, prerelease |-> FALSE, url_ok |-> FALSE],
     Release(<<118>> \o Version020, TRUE, TRUE),
     Release(<<118>> \o Version020, FALSE, FALSE),
     Release(<<118>> \o Version020, FALSE, TRUE),
     Release(Version010, FALSE, TRUE),
     Release(<<118>> \o Version02, FALSE, TRUE)}

ReleaseUrl == "https://github.com/owayo/ignitero-launcher/releases/latest"

UpdateInfo(has_update, current_version, latest_version, html_url) ==
    [has_update |-> has_update, current_version |-> current_version,
     latest_version |-> latest_version, html_url |-> html_url]

\* the cached answer may be used: last_checked is set, not in the future, and
\* less than 12 whole hours old
CacheIsFresh(cache, clock) ==
    /\ cache.last_checked # None
    /\ clock >= cache.last_checked[1]
    /\ (clock - cache.last_checked[1]) \div SecondsPerHour < CacheDurationHours

\* the cached branch with the dismissed version left out of the test
CachedHasUpdateIgnoringDismissal(cache) ==
    /\ cache.latest_version # None
    /\ compare_versions(AppVersion, cache.latest_version[1])

\* has_update of the cached branch
CachedHasUpdate(cache) ==
    /\ cache.latest_version # None
    /\ cache.dismissed_version # cache.latest_version
    /\ compare_versions(AppVersion, cache.latest_version[1])

\* check_for_updates up to its first await: the cached answer, or on to the fetch
UpdateCheck(t, force) ==
    /\ pc[t] = "idle"
    /\ force \/ CanLockSnapshot("settings")
    /\ local' = [local EXCEPT ![t].call = Some(SettingsOp("check_for_updates", force, "idle"))]
    /\ LET cache == settings.update_cache
       IN IF ~force /\ CacheIsFresh(cache, now)
          THEN /\ ret' = Call("check_for_updates", TRUE, "ok", FALSE,
                              UpdateInfo(CachedHasUpdate(cache), AppVersion,
                                         cache.latest_version, cache.html_url))
               /\ Goto(t, "update_done")
          ELSE /\ Goto(t, "update_fetch")
               /\ UNCHANGED ret
    /\ UNCHANGED <<apps, directories, metadata, now, saved, schema>>
    /\ UNCHANGED <<cache_db, tx, state_apps, state_directories, seen, requests>>
    /\ UNCHANGED appVars

\* the rest of check_for_updates once GitHub has answered; a failure of
\* save_update_cache is logged and changes nothing of the answer
UpdateFetched(t, response) ==
    /\ pc[t] = "update_fetch"
    /\ LET latest_version == TrimStartV(response.tag_name)
           has_update == compare_versions(AppVersion, latest_version)
       IN CASE response.kind = "error" ->
                  /\ ret' = Call("check_for_updates", FALSE, "error", FALSE, None)
                  /\ UNCHANGED settings
            [] response.kind = "release" /\ response.prerelease ->
                  /\ ret' = Call("check_for_updates", TRUE, "ok", FALSE,
                                 UpdateInfo(FALSE, AppVersion, None, None))
                  /\ UNCHANGED settings
            [] response.kind = "release" /\ ~response.prerelease /\ ~response.url_ok ->
                  /\ ret' = Call("check_for_updates", FALSE, "url", FALSE, None)
                  /\ UNCHANGED settings
            [] OTHER ->
                  /\ CanLockSnapshot("settings")
                  /\ settings' = ApplyCall(SettingsOp("save_update_cache",
                                              [last_checked |-> Some(now),
                                               latest_version |-> Some(latest_version),
                                               html_url |-> Some(ReleaseUrl)], "idle"),
                                           settings)
                  /\ ret' = Call("check_for_updates", TRUE, "ok", FALSE,
                                 UpdateInfo(has_update, AppVersion, Some(latest_version),
                                            Some(ReleaseUrl)))
    /\ Goto(t, "update_done")
    /\ UNCHANGED <<apps, directories, metadata, now, saved, schema>>
    /\ UNCHANGED <<cache_db, local, tx, state_apps, state_directories, seen, requests>>
    /\ UNCHANGED <<state_commands, snapshot_lock, search_engine>>

\* the front end has the answer and may ask again
UpdateAnswered(t) ==
    /\ pc[t] = "update_done"
    /\ Goto(t, "idle")
    /\ UNCHANGED <<cache_db, local, tx, state_apps, state_directories, seen, requests>>
    /\ UNCHANGED storeVars
    /\ UNCHANGED appVars

\* the update cache of the settings file at startup: never checked, checked 12
\* hours ago, a second less than that, or a second in the future
StoredUpdateCaches ==
    {[last_checked |-> c, latest_version |-> v[1], html_url |-> v[2], dismissed_version |-> d] :
        c \in {None, Some(now - CacheDurationHours * SecondsPerHour),
               Some(now - CacheDurationHours * SecondsPerHour + 1), Some(now + 1)},
        v \in {<<None, None>>, <<Some(Version020), Some(ReleaseUrl)>>},
        d \in {None, Some(Version020)}}

InitUpdate ==
    /\ CacheFile(FALSE)
    /\ pc = [t \in Threads |-> IF t \in {Checker, Editor} THEN "idle" ELSE "done"]
    /\ cache_db = NoThread
    /\ local = [t \in Threads |-> NoLocals]
    /\ tx = NoTx
    /\ state_apps = <<>>
    /\ state_directories = <<>>
    /\ seen = NothingSeen
    /\ requests = 0
    /\ state_commands = <<>>
    /\ snapshot_lock = NoLocks
    /\ search_engine = NoScores
    /\ settings \in {[NoSettings EXCEPT !.update_cache = c] : c \in StoredUpdateCaches}

NextUpdate ==
    \/ \E force \in BOOLEAN : UpdateCheck(Checker, force)
    \/ \E response \in Responses : UpdateFetched(Checker, response)
    \/ UpdateAnswered(Checker)
    \/ \E v \in {Version020, Version02} :
          SettingsRequest(Editor, SettingsOp("dismiss_update", v, "idle"))
    \/ SettingsGuard(Editor)
    \/ \E io \in SettingsFaults : SettingsGuardWrite(Editor, io)

SpecUpdate == InitUpdate /\ [][NextUpdate]_vars

\* check_for_updates returns in this step
Answers == pc[Checker] # "update_done" /\ pc'[Checker] = "update_done"

\* C38: check_for_updates never answers has_update true for a latest version
\* that is the dismissed version, from the cache or from a fetch; and it
\* answers from the cache exactly when it is not forced, last_checked is set,
\* now >= last_checked and (now - last_checked) / 3600 < 12.
C38_DismissedNeverReported ==
    [][/\ Answers /\ ret'.ok /\ ret'.value.has_update
            => ret'.value.latest_version # settings'.update_cache.dismissed_version
       /\ pc[Checker] = "idle" /\ pc'[Checker] # "idle" =>
            ((pc'[Checker] = "update_done")
                <=> /\ ~local'[Checker].call[1].arg
                    /\ CacheIsFresh(settings.update_cache, now))]_vars

\* the same for the answers from the cache
C38_CachedAnswerHonoursDismissal ==
    [][Answers /\ pc[Checker] = "idle" /\ ret'.value.has_update
            => ret'.value.latest_version # settings'.update_cache.dismissed_version]_vars

\* the cache is used, and GitHub is not asked, exactly under the four conditions
C38_CacheUsedWhenFresh ==
    [][pc[Checker] = "idle" /\ pc'[Checker] # "idle" =>
            ((pc'[Checker] = "update_done")
                <=> /\ ~local'[Checker].call[1].arg
                    /\ CacheIsFresh(settings.update_cache, now))]_vars

\* the user dismissed 0.2.0 and a forced check answers has_update for 0.2.0
C38_Cases ==
    /\ pc[Checker] = "update_done"
    /\ ret.op = "check_for_updates" /\ ret.ok /\ ret.value.has_update
    /\ ret.value.latest_version = Some(Version020)
    /\ settings.update_cache.dismissed_version = Some(Version020)
    /\ local[Checker].call[1].arg

====
